---- MODULE Spec2Model ----
(***************************************************************************)
(* StockRevenueLab: the Streamlit dashboards of src/app.py (close-price    *)
(* page), src/pages/11_app_high.py (high-price page) and                   *)
(* src/pages/probability.py (probability page), and the SQL they send to   *)
(* the database.                                                           *)
(*                                                                         *)
(* Conventions.  An SQL value that may be NULL is a sequence: NULL is <<>>   *)
(* and the number v is <<v>>.  A percentage return is the exact rational   *)
(* <<num, den>> (the value of ((price - year_open) / year_open) * 100 in   *)
(* exact arithmetic), or NULL.  The Chinese label texts are written in     *)
(* ASCII: 下跌 = "down", 上漲 = "up", 以下 = "or less", 以上 = "or more",      *)
(* 至 = "to".  A label 'dd. text' is the record of its two leading digits   *)
(* and the text that follows the ". ".                                     *)
(***************************************************************************)
EXTENDS Integers, Sequences, FiniteSets, TLC

VARIABLES
    db,        \* the database: [prices: rows of stock_annual_k, revenue: rows of monthly_revenue]
    widgets,   \* the widget values of the current script run
    pc,        \* the position of the script run
    view,      \* what the script run holds: query results and derived values
    trips,     \* database round trips of the current script run
    cache,     \* st.cache_data: the stored results of the cached fetch functions
    clock,     \* seconds since the server process started
    hist       \* history: queries sent by the run, the last cached call, recent returns

vars == <<db, widgets, pc, view, trips, cache, clock, hist>>

-----------------------------------------------------------------------------
(* SQL values *)

NULL == <<>>

Val(v) == <<v>>

\* a IS NOT NULL number compared with 0 (year_open > 0)
SqlGt0(x) == x # NULL /\ x[1] > 0

-----------------------------------------------------------------------------
(* The annual return and its comparison with a bucket threshold *)

pct_return_nofactor(price, year_open) ==
    IF price = NULL \/ year_open = NULL THEN NULL
    ELSE <<price[1] - year_open[1], year_open[1]>>

\* ((price - year_open) / year_open) * 100; NULL when an operand is NULL.
\* The caller decides what a zero divisor does (DivisionByZero).
pct_return(price, year_open) ==
    IF price = NULL \/ year_open = NULL THEN NULL
    ELSE <<(price[1] - year_open[1]) * 100, year_open[1]>>

\* The division raises "division by zero" when neither operand is NULL
\* and year_open = 0 (the operators are strict: a NULL operand gives NULL).
DivisionByZero(price, year_open) ==
    price # NULL /\ year_open # NULL /\ year_open[1] = 0

SqlLt_inclusive(r, b) ==
    /\ r # NULL
    /\ IF r[2] > 0 THEN r[1] <= b * r[2] ELSE r[1] >= b * r[2]

\* WHEN r < b: taken only when the comparison is TRUE (not NULL)
SqlLt(r, b) ==
    /\ r # NULL
    /\ IF r[2] > 0 THEN r[1] < b * r[2] ELSE r[1] > b * r[2]

\* WHEN r <= b
SqlLe(r, b) ==
    /\ r # NULL
    /\ IF r[2] > 0 THEN r[1] <= b * r[2] ELSE r[1] >= b * r[2]

-----------------------------------------------------------------------------
(* The bucketing tables (CASE cascades), one operator per copy in the source *)

Label(d1, d2, text) == [d1 |-> d1, d2 |-> d2, text |-> text]

\* src/app.py:151-176
return_bin(r) ==
    IF SqlLe(r, -100) THEN Label(0, 0, "down -100% or less")
    ELSE IF SqlLt(r, -90) THEN Label(0, 1, "down -100% to -90%")
    ELSE IF SqlLt(r, -80) THEN Label(0, 2, "down -90% to -80%")
    ELSE IF SqlLt(r, -70) THEN Label(0, 3, "down -80% to -70%")
    ELSE IF SqlLt(r, -60) THEN Label(0, 4, "down -70% to -60%")
    ELSE IF SqlLt(r, -50) THEN Label(0, 5, "down -60% to -50%")
    ELSE IF SqlLt(r, -40) THEN Label(0, 6, "down -50% to -40%")
    ELSE IF SqlLt(r, -30) THEN Label(0, 7, "down -40% to -30%")
    ELSE IF SqlLt(r, -20) THEN Label(0, 8, "down -30% to -20%")
    ELSE IF SqlLt(r, -10) THEN Label(0, 9, "down -20% to -10%")
    ELSE IF SqlLt(r, 0) THEN Label(1, 0, "down -10% to 0%")
    ELSE IF SqlLt(r, 100) THEN Label(1, 1, "up 0-100%")
    ELSE IF SqlLt(r, 200) THEN Label(1, 2, "up 100-200%")
    ELSE IF SqlLt(r, 300) THEN Label(1, 3, "up 200-300%")
    ELSE IF SqlLt(r, 400) THEN Label(1, 4, "up 300-400%")
    ELSE IF SqlLt(r, 500) THEN Label(1, 5, "up 400-500%")
    ELSE IF SqlLt(r, 600) THEN Label(1, 6, "up 500-600%")
    ELSE IF SqlLt(r, 700) THEN Label(1, 7, "up 600-700%")
    ELSE IF SqlLt(r, 800) THEN Label(1, 8, "up 700-800%")
    ELSE IF SqlLt(r, 900) THEN Label(1, 9, "up 800-900%")
    ELSE IF SqlLt(r, 1000) THEN Label(2, 0, "up 900-1000%")
    ELSE Label(2, 1, "up 1000% or more")


bin_order_by_sign(r) == IF SqlLt(r, 0) THEN 0 ELSE 11

\* src/app.py:178-201
bin_order(r) ==
    IF SqlLe(r, -100) THEN 0
    ELSE IF SqlLt(r, -90) THEN 1
    ELSE IF SqlLt(r, -80) THEN 2
    ELSE IF SqlLt(r, -70) THEN 3
    ELSE IF SqlLt(r, -60) THEN 4
    ELSE IF SqlLt(r, -50) THEN 5
    ELSE IF SqlLt(r, -40) THEN 6
    ELSE IF SqlLt(r, -30) THEN 7
    ELSE IF SqlLt(r, -20) THEN 8
    ELSE IF SqlLt(r, -10) THEN 9
    ELSE IF SqlLt(r, 0) THEN 10
    ELSE IF SqlLt(r, 100) THEN 11
    ELSE IF SqlLt(r, 200) THEN 12
    ELSE IF SqlLt(r, 300) THEN 13
    ELSE IF SqlLt(r, 400) THEN 14
    ELSE IF SqlLt(r, 500) THEN 15
    ELSE IF SqlLt(r, 600) THEN 16
    ELSE IF SqlLt(r, 700) THEN 17
    ELSE IF SqlLt(r, 800) THEN 18
    ELSE IF SqlLt(r, 900) THEN 19
    ELSE IF SqlLt(r, 1000) THEN 20
    ELSE 21

\* src/app.py:253-278
return_bin_summary(r) ==
    IF SqlLe(r, -100) THEN Label(0, 0, "down -100% or less")
    ELSE IF SqlLt(r, -90) THEN Label(0, 1, "down -100% to -90%")
    ELSE IF SqlLt(r, -80) THEN Label(0, 2, "down -90% to -80%")
    ELSE IF SqlLt(r, -70) THEN Label(0, 3, "down -80% to -70%")
    ELSE IF SqlLt(r, -60) THEN Label(0, 4, "down -70% to -60%")
    ELSE IF SqlLt(r, -50) THEN Label(0, 5, "down -60% to -50%")
    ELSE IF SqlLt(r, -40) THEN Label(0, 6, "down -50% to -40%")
    ELSE IF SqlLt(r, -30) THEN Label(0, 7, "down -40% to -30%")
    ELSE IF SqlLt(r, -20) THEN Label(0, 8, "down -30% to -20%")
    ELSE IF SqlLt(r, -10) THEN Label(0, 9, "down -20% to -10%")
    ELSE IF SqlLt(r, 0) THEN Label(1, 0, "down -10% to 0%")
    ELSE IF SqlLt(r, 100) THEN Label(1, 1, "up 0-100%")
    ELSE IF SqlLt(r, 200) THEN Label(1, 2, "up 100-200%")
    ELSE IF SqlLt(r, 300) THEN Label(1, 3, "up 200-300%")
    ELSE IF SqlLt(r, 400) THEN Label(1, 4, "up 300-400%")
    ELSE IF SqlLt(r, 500) THEN Label(1, 5, "up 400-500%")
    ELSE IF SqlLt(r, 600) THEN Label(1, 6, "up 500-600%")
    ELSE IF SqlLt(r, 700) THEN Label(1, 7, "up 600-700%")
    ELSE IF SqlLt(r, 800) THEN Label(1, 8, "up 700-800%")
    ELSE IF SqlLt(r, 900) THEN Label(1, 9, "up 800-900%")
    ELSE IF SqlLt(r, 1000) THEN Label(2, 0, "up 900-1000%")
    ELSE Label(2, 1, "up 1000% or more")

\* src/app.py:280-303
bin_order_summary(r) ==
    IF SqlLe(r, -100) THEN 0
    ELSE IF SqlLt(r, -90) THEN 1
    ELSE IF SqlLt(r, -80) THEN 2
    ELSE IF SqlLt(r, -70) THEN 3
    ELSE IF SqlLt(r, -60) THEN 4
    ELSE IF SqlLt(r, -50) THEN 5
    ELSE IF SqlLt(r, -40) THEN 6
    ELSE IF SqlLt(r, -30) THEN 7
    ELSE IF SqlLt(r, -20) THEN 8
    ELSE IF SqlLt(r, -10) THEN 9
    ELSE IF SqlLt(r, 0) THEN 10
    ELSE IF SqlLt(r, 100) THEN 11
    ELSE IF SqlLt(r, 200) THEN 12
    ELSE IF SqlLt(r, 300) THEN 13
    ELSE IF SqlLt(r, 400) THEN 14
    ELSE IF SqlLt(r, 500) THEN 15
    ELSE IF SqlLt(r, 600) THEN 16
    ELSE IF SqlLt(r, 700) THEN 17
    ELSE IF SqlLt(r, 800) THEN 18
    ELSE IF SqlLt(r, 900) THEN 19
    ELSE IF SqlLt(r, 1000) THEN 20
    ELSE 21

\* src/app.py:673-697
return_bin_detail(r) ==
    IF SqlLe(r, -100) THEN Label(0, 0, "down -100% or less")
    ELSE IF SqlLt(r, -90) THEN Label(0, 1, "down -100% to -90%")
    ELSE IF SqlLt(r, -80) THEN Label(0, 2, "down -90% to -80%")
    ELSE IF SqlLt(r, -70) THEN Label(0, 3, "down -80% to -70%")
    ELSE IF SqlLt(r, -60) THEN Label(0, 4, "down -70% to -60%")
    ELSE IF SqlLt(r, -50) THEN Label(0, 5, "down -60% to -50%")
    ELSE IF SqlLt(r, -40) THEN Label(0, 6, "down -50% to -40%")
    ELSE IF SqlLt(r, -30) THEN Label(0, 7, "down -40% to -30%")
    ELSE IF SqlLt(r, -20) THEN Label(0, 8, "down -30% to -20%")
    ELSE IF SqlLt(r, -10) THEN Label(0, 9, "down -20% to -10%")
    ELSE IF SqlLt(r, 0) THEN Label(1, 0, "down -10% to 0%")
    ELSE IF SqlLt(r, 100) THEN Label(1, 1, "up 0-100%")
    ELSE IF SqlLt(r, 200) THEN Label(1, 2, "up 100-200%")
    ELSE IF SqlLt(r, 300) THEN Label(1, 3, "up 200-300%")
    ELSE IF SqlLt(r, 400) THEN Label(1, 4, "up 300-400%")
    ELSE IF SqlLt(r, 500) THEN Label(1, 5, "up 400-500%")
    ELSE IF SqlLt(r, 600) THEN Label(1, 6, "up 500-600%")
    ELSE IF SqlLt(r, 700) THEN Label(1, 7, "up 600-700%")
    ELSE IF SqlLt(r, 800) THEN Label(1, 8, "up 700-800%")
    ELSE IF SqlLt(r, 900) THEN Label(1, 9, "up 800-900%")
    ELSE IF SqlLt(r, 1000) THEN Label(2, 0, "up 900-1000%")
    ELSE Label(2, 1, "up 1000% or more")

\* src/pages/11_app_high.py:130-143
return_bin_high(r) ==
    IF SqlLt(r, 100) THEN Label(0, 1, "up 0-100%")
    ELSE IF SqlLt(r, 200) THEN Label(0, 2, "up 100-200%")
    ELSE IF SqlLt(r, 300) THEN Label(0, 3, "up 200-300%")
    ELSE IF SqlLt(r, 400) THEN Label(0, 4, "up 300-400%")
    ELSE IF SqlLt(r, 500) THEN Label(0, 5, "up 400-500%")
    ELSE IF SqlLt(r, 600) THEN Label(0, 6, "up 500-600%")
    ELSE IF SqlLt(r, 700) THEN Label(0, 7, "up 600-700%")
    ELSE IF SqlLt(r, 800) THEN Label(0, 8, "up 700-800%")
    ELSE IF SqlLt(r, 900) THEN Label(0, 9, "up 800-900%")
    ELSE IF SqlLt(r, 1000) THEN Label(1, 0, "up 900-1000%")
    ELSE Label(1, 1, "up 1000% or more")

\* src/pages/11_app_high.py:145-157
bin_order_high(r) ==
    IF SqlLt(r, 100) THEN 1
    ELSE IF SqlLt(r, 200) THEN 2
    ELSE IF SqlLt(r, 300) THEN 3
    ELSE IF SqlLt(r, 400) THEN 4
    ELSE IF SqlLt(r, 500) THEN 5
    ELSE IF SqlLt(r, 600) THEN 6
    ELSE IF SqlLt(r, 700) THEN 7
    ELSE IF SqlLt(r, 800) THEN 8
    ELSE IF SqlLt(r, 900) THEN 9
    ELSE IF SqlLt(r, 1000) THEN 10
    ELSE 11

\* src/pages/11_app_high.py:209-221
return_bin_high_summary(r) ==
    IF SqlLt(r, 100) THEN Label(0, 1, "up 0-100%")
    ELSE IF SqlLt(r, 200) THEN Label(0, 2, "up 100-200%")
    ELSE IF SqlLt(r, 300) THEN Label(0, 3, "up 200-300%")
    ELSE IF SqlLt(r, 400) THEN Label(0, 4, "up 300-400%")
    ELSE IF SqlLt(r, 500) THEN Label(0, 5, "up 400-500%")
    ELSE IF SqlLt(r, 600) THEN Label(0, 6, "up 500-600%")
    ELSE IF SqlLt(r, 700) THEN Label(0, 7, "up 600-700%")
    ELSE IF SqlLt(r, 800) THEN Label(0, 8, "up 700-800%")
    ELSE IF SqlLt(r, 900) THEN Label(0, 9, "up 800-900%")
    ELSE IF SqlLt(r, 1000) THEN Label(1, 0, "up 900-1000%")
    ELSE Label(1, 1, "up 1000% or more")

\* src/pages/11_app_high.py:222-234
bin_order_high_summary(r) ==
    IF SqlLt(r, 100) THEN 1
    ELSE IF SqlLt(r, 200) THEN 2
    ELSE IF SqlLt(r, 300) THEN 3
    ELSE IF SqlLt(r, 400) THEN 4
    ELSE IF SqlLt(r, 500) THEN 5
    ELSE IF SqlLt(r, 600) THEN 6
    ELSE IF SqlLt(r, 700) THEN 7
    ELSE IF SqlLt(r, 800) THEN 8
    ELSE IF SqlLt(r, 900) THEN 9
    ELSE IF SqlLt(r, 1000) THEN 10
    ELSE 11


-----------------------------------------------------------------------------
(* The price CTEs.  A row of stock_annual_k is                              *)
(* [symbol, year, year_open, year_close, year_high]; a symbol 'id.market'  *)
(* is the record [id, market].                                             *)

\* SPLIT_PART(symbol, '.', 1)
SPLIT_PART_1(symbol) == symbol.id

\* A query either returns its rows or raises an error.
Rows(rows) == [ran |-> TRUE, ok |-> TRUE, rows |-> rows]

Failed == [ran |-> TRUE, ok |-> FALSE, rows |-> {}]

\* FROM stock_annual_k WHERE year = '{year}'
year_filter(p, year) == p.year = year

year_filter_high_nofilter(p, year) == p.year = year

\* ... WHERE year = '{year}' AND year_open IS NOT NULL AND year_high IS NOT NULL AND year_open > 0
year_filter_high(p, year) ==
    /\ p.year = year
    /\ p.year_open # NULL
    /\ p.year_high # NULL
    /\ SqlGt0(p.year_open)

\* CTE annual_bins of fetch_heatmap_data
annual_bins(prices, year) ==
    LET sel == {p \in prices : year_filter(p, year)}
    IN  IF \E p \in sel : DivisionByZero(p.year_close, p.year_open) THEN Failed
        ELSE Rows({ [symbol |-> p.symbol,
                     annual_return |-> pct_return(p.year_close, p.year_open),
                     return_bin |-> return_bin(pct_return(p.year_close, p.year_open)),
                     bin_order |-> bin_order(pct_return(p.year_close, p.year_open))]
                    : p \in sel })

\* CTE annual_bins of fetch_stat_summary
annual_bins_summary(prices, year) ==
    LET sel == {p \in prices : year_filter(p, year)}
    IN  IF \E p \in sel : DivisionByZero(p.year_close, p.year_open) THEN Failed
        ELSE Rows({ [symbol |-> p.symbol,
                     annual_return |-> pct_return(p.year_close, p.year_open),
                     return_bin |-> return_bin_summary(pct_return(p.year_close, p.year_open)),
                     bin_order |-> bin_order_summary(pct_return(p.year_close, p.year_open))]
                    : p \in sel })

\* CTE target_stocks of detail_query
target_stocks(prices, year) ==
    LET sel == {p \in prices : year_filter(p, year)}
    IN  IF \E p \in sel : DivisionByZero(p.year_close, p.year_open) THEN Failed
        ELSE Rows({ [symbol |-> p.symbol,
                     annual_ret |-> pct_return(p.year_close, p.year_open),
                     return_bin |-> return_bin_detail(pct_return(p.year_close, p.year_open))]
                    : p \in sel })

\* CTE annual_bins of fetch_heatmap_data_high
annual_bins_high(prices, year) ==
    LET sel == {p \in prices : year_filter_high(p, year)}
    IN  IF \E p \in sel : DivisionByZero(p.year_high, p.year_open) THEN Failed
        ELSE Rows({ [symbol |-> p.symbol,
                     annual_max_return |-> pct_return(p.year_high, p.year_open),
                     return_bin |-> return_bin_high(pct_return(p.year_high, p.year_open)),
                     bin_order |-> bin_order_high(pct_return(p.year_high, p.year_open))]
                    : p \in sel })

\* CTE annual_bins of fetch_stat_summary_high
annual_bins_high_summary(prices, year) ==
    LET sel == {p \in prices : year_filter_high(p, year)}
    IN  IF \E p \in sel : DivisionByZero(p.year_high, p.year_open) THEN Failed
        ELSE Rows({ [symbol |-> p.symbol,
                     annual_max_return |-> pct_return(p.year_high, p.year_open),
                     return_bin |-> return_bin_high_summary(pct_return(p.year_high, p.year_open)),
                     bin_order |-> bin_order_high_summary(pct_return(p.year_high, p.year_open))]
                    : p \in sel })

-----------------------------------------------------------------------------
(* Strings: a string is a sequence of one-character strings *)

DigitChar == <<"0", "1", "2", "3", "4", "5", "6", "7", "8", "9">>

DigitVal(c) == CHOOSE d \in 0..9 : DigitChar[d + 1] = c

\* Python str(n) / f"{n}" of a natural number
RECURSIVE str(_)
str(n) == IF n < 10 THEN <<DigitChar[n + 1]>>
          ELSE Append(str(n \div 10), DigitChar[(n % 10) + 1])

\* Python int(s) of a digit string
RECURSIVE int(_)
int(s) == IF Len(s) = 1 THEN DigitVal(s[1])
          ELSE int(SubSeq(s, 1, Len(s) - 1)) * 10 + DigitVal(s[Len(s)])

\* Byte value of a character of a report month (digits and '_')
Code(c) == IF c = "_" THEN 95 ELSE 48 + DigitVal(c)

\* a < b on strings, byte by byte (a proper prefix is smaller)
RECURSIVE StrLt(_, _)
StrLt(a, b) ==
    IF b = <<>> THEN FALSE
    ELSE IF a = <<>> THEN TRUE
    ELSE IF Code(Head(a)) # Code(Head(b)) THEN Code(Head(a)) < Code(Head(b))
    ELSE StrLt(Tail(a), Tail(b))

StrLe(a, b) == a = b \/ StrLt(a, b)

\* s LIKE pat: '_' matches any one character, '%' any run of characters
RECURSIVE LIKE(_, _)
LIKE(s, pat) ==
    IF pat = <<>> THEN s = <<>>
    ELSE IF Head(pat) = "%" THEN LIKE(s, Tail(pat)) \/ (s # <<>> /\ LIKE(Tail(s), pat))
    ELSE s # <<>> /\ (Head(pat) = "_" \/ Head(pat) = Head(s)) /\ LIKE(Tail(s), Tail(pat))

\* '%{keyword}%'
KeywordPattern(keyword) == <<"%">> \o keyword \o <<"%">>

-----------------------------------------------------------------------------
(* The report-month windows.  A row of monthly_revenue is                    *)
(* [stock_id, stock_name, report_month, yoy_pct, mom_pct, remark].         *)

\* minguo_year = int(year) - 1911
minguo_year(year) == int(year) - 1911

\* prev_minguo_year = minguo_year - 1
prev_minguo_year(year) == minguo_year(year) - 1

\* f"{n}_12", f"{n}_11", f"{n}_%"
Month12(n) == str(n) \o <<"_", "1", "2">>

Month11(n) == str(n) \o <<"_", "1", "1">>

MonthPattern(n) == str(n) \o <<"_", "%">>

monthly_window_with_december(rm, year) ==
    \/ rm = Month12(prev_minguo_year(year))
    \/ /\ LIKE(rm, MonthPattern(minguo_year(year)))
       /\ StrLe(rm, Month12(minguo_year(year)))
       /\ Len(rm) <= 7

\* monthly_stats of fetch_heatmap_data / fetch_stat_summary (both pages):
\* report_month = '{prev}_12' OR (report_month LIKE '{M}_%'
\*    AND report_month < '{M}_12' AND LENGTH(report_month) <= 7)
monthly_window(rm, year) ==
    \/ rm = Month12(prev_minguo_year(year))
    \/ /\ LIKE(rm, MonthPattern(minguo_year(year)))
       /\ StrLt(rm, Month12(minguo_year(year)))
       /\ Len(rm) <= 7

\* detail_query of app.py: (report_month LIKE '{M}_%' AND report_month < '{M}_12'
\*    OR report_month = '{prev}_12')
detail_window(rm, year) ==
    \/ /\ LIKE(rm, MonthPattern(minguo_year(year)))
       /\ StrLt(rm, Month12(minguo_year(year)))
    \/ rm = Month12(prev_minguo_year(year))

\* hit_table of probability.py: report_month = '{prev}_12'
\*    OR (report_month LIKE '{M}_%' AND report_month <= '{M}_11')
hit_window(rm, year) ==
    \/ rm = Month12(prev_minguo_year(year))
    \/ /\ LIKE(rm, MonthPattern(minguo_year(year)))
       /\ StrLe(rm, Month11(minguo_year(year)))

\* LEFT JOIN monthly_revenue m of the probability page's detail_query:
\* (m.report_month LIKE '{M}_%' OR m.report_month = '{prev}_12')
detail_join_window(rm, year) ==
    \/ LIKE(rm, MonthPattern(minguo_year(year)))
    \/ rm = Month12(prev_minguo_year(year))

\* CTE monthly_stats
monthly_stats(revenue, year) == {m \in revenue : monthly_window(m.report_month, year)}

-----------------------------------------------------------------------------
(* The statistic selector.  Method names and labels in ASCII:               *)
(*   中位數 (排除極端值) = "median (excluding extremes)"                       *)
(*   平均值 (含極端值)   = "mean (including extremes)"                         *)
(*   標準差 (波動程度)   = "stddev (volatility)"                               *)
(*   變異係數 (相對波動) = "cv (relative volatility)"                          *)
(*   偏度 (分佈形狀)     = "skewness (distribution shape)"                     *)
(*   峰度 (尾部厚度)     = "kurtosis (tail thickness)"                         *)
(*   四分位距 (離散程度) = "iqr (dispersion)"                                  *)
(*   正樣本比例          = "positive ratio"                                    *)

stat_methods ==
    << "median (excluding extremes)",
       "mean (including extremes)",
       "stddev (volatility)",
       "cv (relative volatility)",
       "skewness (distribution shape)",
       "kurtosis (tail thickness)",
       "iqr (dispersion)",
       "positive ratio" >>

MetricColumns == {"yoy_pct", "mom_pct"}

\* The eight names as the source writes them, each character by its code point
\* (src/app.py:88-97)
stat_method_text ==
    << <<"4e2d", "4f4d", "6578", "0020", "0028", "6392", "9664", "6975", "7aef", "503c", "0029">>,
       <<"5e73", "5747", "503c", "0020", "0028", "542b", "6975", "7aef", "503c", "0029">>,
       <<"6a19", "6e96", "5dee", "0020", "0028", "6ce2", "52d5", "7a0b", "5ea6", "0029">>,
       <<"8b8a", "7570", "4fc2", "6578", "0020", "0028", "76f8", "5c0d", "6ce2", "52d5", "0029">>,
       <<"504f", "5ea6", "0020", "0028", "5206", "4f48", "5f62", "72c0", "0029">>,
       <<"5cf0", "5ea6", "0020", "0028", "5c3e", "90e8", "539a", "5ea6", "0029">>,
       <<"56db", "5206", "4f4d", "8ddd", "0020", "0028", "96e2", "6563", "7a0b", "5ea6", "0029">>,
       <<"6b63", "6a23", "672c", "6bd4", "4f8b">> >>

\* The source text of a method name (a name the selectbox does not offer is one piece)
method_text(stat_method) ==
    IF \E i \in 1..Len(stat_methods) : stat_methods[i] = stat_method
    THEN stat_method_text[CHOOSE i \in 1..Len(stat_methods) : stat_methods[i] = stat_method]
    ELSE <<stat_method>>

\* st.radio("快速切換統計模式", ["中位數", "平均值", "標準差", "變異係數"]): the four
\* words, each character by its code point
quick_stat_words ==
    << <<"4e2d", "4f4d", "6578">>,
       <<"5e73", "5747", "503c">>,
       <<"6a19", "6e96", "5dee">>,
       <<"8b8a", "7570", "4fc2", "6578">> >>

\* Some character of the word is in the text
contains_a_character(s, w) == \E i \in 1..Len(s), j \in 1..Len(w) : s[i] = w[j]

\* Series.str.contains(w): the word is a part of the text
contains(s, w) == \E i \in 0..(Len(s) - Len(w)) : SubSeq(s, i + 1, i + Len(w)) = w

\* The method name each branch of the quick switch fetches with when df has no
\* row of its word (src/app.py:778, 782, 786, 790): the literals are the first
\* four names of stat_methods
quick_stat_method(quick_stat) == stat_methods[quick_stat]

agg_func_iqr_as_stddev(stat_method, metric_col) ==
    IF stat_method = "median (excluding extremes)" THEN
        "percentile_cont(0.5) WITHIN GROUP (ORDER BY m." \o metric_col \o ")"
    ELSE IF stat_method = "stddev (volatility)" \/ stat_method = "iqr (dispersion)" THEN
        "STDDEV(m." \o metric_col \o ")"
    ELSE IF stat_method = "cv (relative volatility)" THEN
        "CASE WHEN AVG(m." \o metric_col \o ") = 0 THEN 0 ELSE (STDDEV(m." \o metric_col
            \o ") / ABS(AVG(m." \o metric_col \o "))) * 100 END"
    ELSE IF stat_method = "skewness (distribution shape)" THEN
        "CASE WHEN STDDEV(m." \o metric_col \o ") = 0 THEN 0 ELSE (AVG(POWER((m." \o metric_col
            \o " - AVG(m." \o metric_col \o "))/NULLIF(STDDEV(m." \o metric_col \o "),0), 3))) END"
    ELSE IF stat_method = "kurtosis (tail thickness)" THEN
        "CASE WHEN STDDEV(m." \o metric_col \o ") = 0 THEN 0 ELSE (AVG(POWER((m." \o metric_col
            \o " - AVG(m." \o metric_col \o "))/NULLIF(STDDEV(m." \o metric_col \o "),0), 4)) - 3) END"
    ELSE IF stat_method = "positive ratio" THEN
        "SUM(CASE WHEN m." \o metric_col \o " > 0 THEN 1 ELSE 0 END) * 100.0 / COUNT(*)"
    ELSE
        "AVG(m." \o metric_col \o ")"

\* agg_func of fetch_heatmap_data and of fetch_heatmap_data_high (the same text)
agg_func(stat_method, metric_col) ==
    IF stat_method = "median (excluding extremes)" THEN
        "percentile_cont(0.5) WITHIN GROUP (ORDER BY m." \o metric_col \o ")"
    ELSE IF stat_method = "mean (including extremes)" THEN
        "AVG(m." \o metric_col \o ")"
    ELSE IF stat_method = "stddev (volatility)" THEN
        "STDDEV(m." \o metric_col \o ")"
    ELSE IF stat_method = "cv (relative volatility)" THEN
        "CASE WHEN AVG(m." \o metric_col \o ") = 0 THEN 0 ELSE (STDDEV(m." \o metric_col
            \o ") / ABS(AVG(m." \o metric_col \o "))) * 100 END"
    ELSE IF stat_method = "skewness (distribution shape)" THEN
        "CASE WHEN STDDEV(m." \o metric_col \o ") = 0 THEN 0 ELSE (AVG(POWER((m." \o metric_col
            \o " - AVG(m." \o metric_col \o "))/NULLIF(STDDEV(m." \o metric_col \o "),0), 3))) END"
    ELSE IF stat_method = "kurtosis (tail thickness)" THEN
        "CASE WHEN STDDEV(m." \o metric_col \o ") = 0 THEN 0 ELSE (AVG(POWER((m." \o metric_col
            \o " - AVG(m." \o metric_col \o "))/NULLIF(STDDEV(m." \o metric_col \o "),0), 4)) - 3) END"
    ELSE IF stat_method = "iqr (dispersion)" THEN
        "percentile_cont(0.75) WITHIN GROUP (ORDER BY m." \o metric_col
            \o ") - percentile_cont(0.25) WITHIN GROUP (ORDER BY m." \o metric_col \o ")"
    ELSE IF stat_method = "positive ratio" THEN
        "SUM(CASE WHEN m." \o metric_col \o " > 0 THEN 1 ELSE 0 END) * 100.0 / COUNT(*)"
    ELSE
        "AVG(m." \o metric_col \o ")"

\* stat_label of fetch_heatmap_data and of fetch_heatmap_data_high
stat_label(stat_method) ==
    IF stat_method = "median (excluding extremes)" THEN "median"
    ELSE IF stat_method = "mean (including extremes)" THEN "mean"
    ELSE IF stat_method = "stddev (volatility)" THEN "stddev"
    ELSE IF stat_method = "cv (relative volatility)" THEN "cv%"
    ELSE IF stat_method = "skewness (distribution shape)" THEN "skewness"
    ELSE IF stat_method = "kurtosis (tail thickness)" THEN "kurtosis"
    ELSE IF stat_method = "iqr (dispersion)" THEN "iqr"
    ELSE IF stat_method = "positive ratio" THEN "positive growth ratio%"
    ELSE "mean"

-----------------------------------------------------------------------------
(* The queries.  A result is [ran, ok, bins, months, rows]: bins and months *)
(* are the rows of the query's price CTE and revenue CTE, rows is what the  *)
(* final SELECT returns.                                                   *)

QueryResult(bins, months, rows) ==
    [ran |-> TRUE, ok |-> TRUE, bins |-> bins, months |-> months, rows |-> rows]

QueryFailed == [ran |-> TRUE, ok |-> FALSE, bins |-> {}, months |-> {}, rows |-> {}]

QueryNotRun == [ran |-> FALSE, ok |-> FALSE, bins |-> {}, months |-> {}, rows |-> {}]

\* FROM annual_bins b JOIN monthly_stats m ON SPLIT_PART(b.symbol, '.', 1) = m.stock_id
\* WHERE m.{metric_col} IS NOT NULL
JoinBinsMonths(bins, months, metric_col) ==
    {j \in bins \X months :
        SPLIT_PART_1(j[1].symbol) = j[2].stock_id /\ j[2][metric_col] # NULL}

\* The final SELECT of the heatmap query grouped by the stock as well
HeatmapRows_per_symbol(bins, months, metric_col, method) ==
    LET joined == JoinBinsMonths(bins, months, metric_col)
        key(j) == <<j[1].return_bin, j[1].bin_order, j[2].report_month, j[1].symbol>>
        G(k) == {j \in joined : key(j) = k}
    IN  { [return_bin |-> k[1], bin_order |-> k[2], report_month |-> k[3],
           val |-> [agg_func |-> agg_func(method, metric_col),
                    values |-> {<<j[2].stock_id, j[2][metric_col]>> : j \in G(k)}],
           stock_count |-> Cardinality({j[1].symbol : j \in G(k)}),
           data_points |-> Cardinality(G(k)),
           stat_method |-> method,
           stat_label |-> stat_label(method)]
          : k \in {key(j) : j \in joined} }

\* The final SELECT of the heatmap query and the two columns the function adds
\* (val is kept as the aggregate's text and the values it ranges over)
HeatmapRows(bins, months, metric_col, method) ==
    LET joined == JoinBinsMonths(bins, months, metric_col)
        key(j) == <<j[1].return_bin, j[1].bin_order, j[2].report_month>>
        G(k) == {j \in joined : key(j) = k}
    IN  { [return_bin |-> k[1], bin_order |-> k[2], report_month |-> k[3],
           val |-> [agg_func |-> agg_func(method, metric_col),
                    values |-> {<<j[2].stock_id, j[2][metric_col]>> : j \in G(k)}],
           stock_count |-> Cardinality({j[1].symbol : j \in G(k)}),
           data_points |-> Cardinality(G(k)),
           stat_method |-> method,
           stat_label |-> stat_label(method)]
          : k \in {key(j) : j \in joined} }

\* The final SELECT of the summary query (the statistics are kept as the values
\* they range over)
SummaryRows(bins, months, metric_col) ==
    LET joined == JoinBinsMonths(bins, months, metric_col)
        key(j) == <<j[1].return_bin, j[1].bin_order>>
        G(k) == {j \in joined : key(j) = k}
    IN  { [return_bin |-> k[1], bin_order |-> k[2],
           stock_count |-> Cardinality({j[1].symbol : j \in G(k)}),
           values |-> {<<j[2].stock_id, j[2].report_month, j[2][metric_col]>> : j \in G(k)}]
          : k \in {key(j) : j \in joined} }

fetch_heatmap_data(d, year, metric_col, stat_method) ==
    LET b == annual_bins(d.prices, year)
        m == monthly_stats(d.revenue, year)
    IN  IF ~b.ok THEN QueryFailed
        ELSE QueryResult(b.rows, m, HeatmapRows(b.rows, m, metric_col, stat_method))

fetch_stat_summary(d, year, metric_col) ==
    LET b == annual_bins_summary(d.prices, year)
        m == monthly_stats(d.revenue, year)
    IN  IF ~b.ok THEN QueryFailed
        ELSE QueryResult(b.rows, m, SummaryRows(b.rows, m, metric_col))

fetch_heatmap_data_high(d, year, metric_col, stat_method) ==
    LET b == annual_bins_high(d.prices, year)
        m == monthly_stats(d.revenue, year)
    IN  IF ~b.ok THEN QueryFailed
        ELSE QueryResult(b.rows, m, HeatmapRows(b.rows, m, metric_col, stat_method))

fetch_stat_summary_high(d, year, metric_col) ==
    LET b == annual_bins_high_summary(d.prices, year)
        m == monthly_stats(d.revenue, year)
    IN  IF ~b.ok THEN QueryFailed
        ELSE QueryResult(b.rows, m, SummaryRows(b.rows, m, metric_col))

-----------------------------------------------------------------------------
(* Aggregates *)

Abs(x) == IF x < 0 THEN -x ELSE x

\* ROUND((n / d)::numeric, 1), in tenths (ROUND of a numeric rounds half away from zero)
RoundTenths(n, d) ==
    LET q == (2 * Abs(n) * 10 + Abs(d)) \div (2 * Abs(d))
    IN  IF (n < 0) # (d < 0) THEN -q ELSE q

\* ROUND(x::numeric, 1) of a nullable rational
ROUND1(x) == IF x = NULL THEN NULL ELSE Val(RoundTenths(x[1], x[2]))

RECURSIVE SumCol(_, _)
SumCol(S, col) ==
    IF S = {} THEN 0
    ELSE LET x == CHOOSE y \in S : TRUE
         IN  x[col][1] + SumCol(S \ {x}, col)

\* AVG(m.col) over the rows S: NULLs are skipped, NULL when nothing is left
AVG(S, col) ==
    LET nn == {m \in S : m[col] # NULL}
    IN  IF nn = {} THEN NULL ELSE <<SumCol(nn, col), Cardinality(nn)>>

-----------------------------------------------------------------------------
(* The drill-down query of the close-price page *)

HasRemark(m) == m.remark # NULL /\ m.remark # Val(<<"-">>) /\ m.remark # Val(<<>>)

\* CTE latest_remarks: DISTINCT ON (stock_id) ... ORDER BY stock_id, report_month DESC
latest_remarks(revenue, year) ==
    LET cand == {m \in revenue : detail_window(m.report_month, year) /\ HasRemark(m)}
        latest(s) == CHOOSE m \in cand :
                        /\ m.stock_id = s
                        /\ \A o \in cand : o.stock_id = s => StrLe(o.report_month, m.report_month)
    IN  { [stock_id |-> s, remark |-> latest(s).remark] : s \in {m.stock_id : m \in cand} }

\* ORDER BY ret DESC NULLS LAST LIMIT n
LIMIT_NULLS_LAST(rows, n) ==
    LET before(a, b) ==
            \/ a.annual_ret # NULL /\ b.annual_ret = NULL
            \/ a.annual_ret # NULL /\ b.annual_ret # NULL /\ a.annual_ret[1] > b.annual_ret[1]
    IN  {r \in rows : Cardinality({q \in rows : before(q, r)}) < n}

\* ORDER BY ret DESC LIMIT n (NULLs sort first in a descending order)
LIMIT(rows, n) ==
    LET before(a, b) ==
            \/ a.annual_ret = NULL /\ b.annual_ret # NULL
            \/ a.annual_ret # NULL /\ b.annual_ret # NULL /\ a.annual_ret[1] > b.annual_ret[1]
    IN  {r \in rows : Cardinality({q \in rows : before(q, r)}) < n}

detail_query(d, year, selected_bin, search_keyword, display_limit) ==
    LET t == target_stocks(d.prices, year)
        r == latest_remarks(d.revenue, year)
        remark(id) == IF \E x \in r : x.stock_id = id
                      THEN (CHOOSE x \in r : x.stock_id = id).remark
                      ELSE NULL
        pat == KeywordPattern(search_keyword)
        joined == {j \in d.revenue \X t.rows :
                     /\ j[1].stock_id = SPLIT_PART_1(j[2].symbol)
                     /\ j[2].return_bin = selected_bin
                     /\ detail_window(j[1].report_month, year)
                     /\ \/ LIKE(j[1].stock_name, pat)
                        \/ remark(j[1].stock_id) # NULL /\ LIKE(remark(j[1].stock_id)[1], pat)}
        key(j) == <<j[1].stock_id, j[1].stock_name, j[2].annual_ret, remark(j[1].stock_id)>>
        G(k) == {j[1] : j \in {x \in joined : key(x) = k}}
        rows == { [stock_id |-> k[1], stock_name |-> k[2],
                   annual_ret |-> ROUND1(k[3]),
                   yoy_avg |-> ROUND1(AVG(G(k), "yoy_pct")),
                   mom_avg |-> ROUND1(AVG(G(k), "mom_pct")),
                   remark |-> k[4]]
                  : k \in {key(j) : j \in joined} }
    IN  IF ~t.ok THEN QueryFailed
        ELSE QueryResult(t.rows,
                         {m \in d.revenue : detail_window(m.report_month, year)},
                         LIMIT(rows, display_limit))

-----------------------------------------------------------------------------
(* The keyword inside the text of detail_query: the f-string puts it between  *)
(* the quotes of LIKE '%...%' as it was typed. A keyword is the sequence of   *)
(* its pieces: characters, and whole SQL phrases where it holds any           *)

Quote == "'"

\* The pieces that are statements of their own once outside the literal
SqlStatements == {"DELETE FROM monthly_revenue", "DELETE FROM stock_annual_k", "COMMIT", "SELECT"}

IsStatement(x) == x \in SqlStatements

\* The place of the first quote of the keyword, 0 when it has none
QuoteAt(kw) ==
    IF \E i \in 1..Len(kw) : kw[i] = Quote
    THEN CHOOSE i \in 1..Len(kw) : kw[i] = Quote /\ \A j \in 1..(i - 1) : kw[j] # Quote
    ELSE 0

\* The statements the text holds after the query's own: the keyword's first quote
\* ends the literal, and what follows it is SQL
injected_statements(kw) ==
    IF QuoteAt(kw) = 0 THEN <<>>
    ELSE SelectSeq(SubSeq(kw, QuoteAt(kw) + 1, Len(kw)), IsStatement)

\* The text parses: no quote in the keyword, or after the quote statements of
\* which the last is a SELECT that the lines after the keyword complete, and a
\* comment that takes the rest of the keyword's line
text_parses(kw) ==
    \/ QuoteAt(kw) = 0
    \/ /\ kw[Len(kw)] = "--"
       /\ injected_statements(kw) # <<>>
       /\ injected_statements(kw)[Len(injected_statements(kw))] = "SELECT"

\* The statements run one after the other in the transaction of the connection;
\* a DELETE needs the privilege; COMMIT makes the changes last; what is not
\* committed when the connection closes is rolled back
RECURSIVE run_statements(_, _, _, _)
run_statements(stmts, work, committed, writable) ==
    IF stmts = <<>> THEN [ok |-> TRUE, tables |-> committed]
    ELSE LET s == Head(stmts)
         IN  IF s \in {"DELETE FROM monthly_revenue", "DELETE FROM stock_annual_k"}
             THEN IF ~writable THEN [ok |-> FALSE, tables |-> committed]
                  ELSE run_statements(Tail(stmts),
                                      IF s = "DELETE FROM monthly_revenue"
                                      THEN [work EXCEPT !.revenue = {}]
                                      ELSE [work EXCEPT !.prices = {}],
                                      committed, writable)
             ELSE IF s = "COMMIT"
             THEN run_statements(Tail(stmts), work, work, writable)
             ELSE run_statements(Tail(stmts), work, committed, writable)

\* pd.read_sql_query(text(detail_query), conn) on the database d: the rows of the
\* last statement of the text (an injected SELECT gives none here) and the tables
\* as the text leaves them
read_detail_query(d, year, selected_bin, search_keyword, display_limit) ==
    LET tables == [prices |-> d.prices, revenue |-> d.revenue]
        outcome(own, ran) ==
            IF ~d.up \/ ~text_parses(search_keyword) \/ ~own.ok
            THEN [result |-> QueryFailed, tables |-> tables]
            ELSE IF QuoteAt(search_keyword) = 0 THEN [result |-> own, tables |-> tables]
            ELSE IF ~ran.ok THEN [result |-> QueryFailed, tables |-> ran.tables]
            ELSE [result |-> QueryResult({}, {}, {}), tables |-> ran.tables]
    IN  outcome(detail_query(d, year, selected_bin,
                             IF QuoteAt(search_keyword) = 0 THEN search_keyword
                             ELSE SubSeq(search_keyword, 1, QuoteAt(search_keyword) - 1),
                             display_limit),
                run_statements(injected_statements(search_keyword), tables, tables, d.writable))

-----------------------------------------------------------------------------
(* The statistics of the probability table over a group of joined rows, each *)
(* row a pair <<symbol, ret>> whose ret is NULL or the rational <<n, d>>      *)

RECURSIVE GCD(_, _)
GCD(a, b) == IF b = 0 THEN a ELSE GCD(b, a % b)

\* The rational in lowest terms with a positive denominator
Reduce(x) ==
    LET g == GCD(Abs(x[1]), Abs(x[2]))
        s == IF x[2] < 0 THEN -1 ELSE 1
    IN  <<s * (x[1] \div g), s * (x[2] \div g)>>

RatAdd(a, b) == Reduce(<<a[1] * b[2] + b[1] * a[2], a[2] * b[2]>>)

RatMul(a, b) == Reduce(<<a[1] * b[1], a[2] * b[2]>>)

RatLt(a, b) == Reduce(a)[1] * Reduce(b)[2] < Reduce(b)[1] * Reduce(a)[2]

RatLe(a, b) == Reduce(a)[1] * Reduce(b)[2] <= Reduce(b)[1] * Reduce(a)[2]

\* The rows of the group whose ret is not NULL (aggregates skip NULL, pandas NaN)
NotNullRets(G) == {g \in G : g[2] # NULL}

RECURSIVE RatSum(_)
RatSum(G) ==
    IF G = {} THEN <<0, 1>>
    ELSE LET g == CHOOSE x \in G : TRUE
         IN  RatAdd(g[2], RatSum(G \ {g}))

RECURSIVE RatSumSq(_)
RatSumSq(G) ==
    IF G = {} THEN <<0, 1>>
    ELSE LET g == CHOOSE x \in G : TRUE
         IN  RatAdd(RatMul(g[2], g[2]), RatSumSq(G \ {g}))

\* The k-th smallest ret of the rows G (none NULL)
Kth(G, k) ==
    CHOOSE v \in {g[2] : g \in G} :
        /\ Cardinality({g \in G : RatLt(g[2], v)}) < k
        /\ k <= Cardinality({g \in G : RatLe(g[2], v)})

\* AVG(ret), ret_series.mean()
MEAN(G) ==
    LET nn == NotNullRets(G)
    IN  IF nn = {} THEN NULL ELSE RatMul(RatSum(nn), <<1, Cardinality(nn)>>)

\* PERCENTILE_CONT(0.5) WITHIN GROUP (ORDER BY ret), ret_series.median()
MEDIAN(G) ==
    LET nn == NotNullRets(G)
        n == Cardinality(nn)
    IN  IF n = 0 THEN NULL
        ELSE IF n % 2 = 1 THEN Reduce(Kth(nn, (n + 1) \div 2))
        ELSE RatMul(RatAdd(Kth(nn, n \div 2), Kth(nn, n \div 2 + 1)), <<1, 2>>)

\* MIN(ret), ret_series.min()
MIN(G) == LET nn == NotNullRets(G) IN IF nn = {} THEN NULL ELSE Reduce(Kth(nn, 1))

\* MAX(ret), ret_series.max()
MAX(G) ==
    LET nn == NotNullRets(G) IN IF nn = {} THEN NULL ELSE Reduce(Kth(nn, Cardinality(nn)))

\* The share of the rets that are not above k
RateNotAbove(G, k) ==
    Reduce(<<Cardinality({g \in NotNullRets(G) : ~RatLt(<<k, 1>>, g[2])}) * 100, Cardinality(G)>>)

\* COUNT(*) FILTER (WHERE ret > k) * 100.0 / COUNT(*), (ret_series > k).sum() / len(group) * 100:
\* a NULL ret is not above k and is counted in the divisor
RateAbove(G, k) ==
    Reduce(<<Cardinality({g \in NotNullRets(G) : RatLt(<<k, 1>>, g[2])}) * 100, Cardinality(G)>>)

\* The sample variance of the rets, NULL under two values
VAR_SAMP(G) ==
    LET nn == NotNullRets(G)
        n == Cardinality(nn)
        s == RatSum(nn)
    IN  IF n < 2 THEN NULL
        ELSE RatMul(RatAdd(RatMul(<<n, 1>>, RatSumSq(nn)), RatMul(<<-1, 1>>, RatMul(s, s))),
                    <<1, n * (n - 1)>>)

RECURSIVE ISqrtIn(_, _, _)
ISqrtIn(y, lo, hi) ==
    IF lo = hi THEN lo
    ELSE LET mid == (lo + hi + 1) \div 2
         IN  IF mid * mid <= y THEN ISqrtIn(y, mid, hi) ELSE ISqrtIn(y, lo, mid - 1)

\* The square root of the rational x rounded to one decimal, in tenths
SqrtTenths(x) ==
    LET h == 100 * (x[1] % x[2])
        y == 100 * (x[1] \div x[2]) + h \div x[2]
        s == ISqrtIn(y, 0, 46340)
    IN  IF y > s * s + s \/ (y = s * s + s /\ 4 * (h % x[2]) >= x[2]) THEN s + 1 ELSE s

\* ROUND(STDDEV(ret)::numeric, 1): NULL when the group has under two rets
STDDEV_ROUND1(G) == IF VAR_SAMP(G) = NULL THEN NULL ELSE Val(SqrtTenths(VAR_SAMP(G)))

\* Python's round(x, 1) of a float, in tenths: a tie goes to the even digit; NaN stays NaN
round1(x) ==
    IF x = NULL THEN NULL
    ELSE LET a == 10 * Abs(x[1])
             d == Abs(x[2])
             q == a \div d
             r == a % d
             m == IF 2 * r < d THEN q
                  ELSE IF 2 * r > d THEN q + 1
                  ELSE IF q % 2 = 0 THEN q ELSE q + 1
         IN  Val(IF (x[1] < 0) # (x[2] < 0) THEN -m ELSE m)

\* round(ret_series.std(), 1) if len(group) > 1 else 0
std_round1_alt(G) ==
    IF Cardinality(G) > 1 THEN STDDEV_ROUND1(G) ELSE Val(0)

-----------------------------------------------------------------------------
(* The probability page *)

\* The hit table with the upper threshold taken in
hit_table_upper_inclusive(revenue, year, metric_col, low, high) ==
    LET hit == {m \in revenue :
                  /\ hit_window(m.report_month, year)
                  /\ m[metric_col] # NULL
                  /\ m[metric_col][1] >= low
                  /\ m[metric_col][1] <= high}
    IN  { [stock_id |-> s, hits |-> Cardinality({m \in hit : m.stock_id = s})]
          : s \in {m.stock_id : m \in hit} }

\* CTE hit_table: GROUP BY stock_id, COUNT(*) of the rows in the window whose
\* metric is in [low, high)
hit_table(revenue, year, metric_col, low, high) ==
    LET hit == {m \in revenue :
                  /\ hit_window(m.report_month, year)
                  /\ m[metric_col] # NULL
                  /\ m[metric_col][1] >= low
                  /\ m[metric_col][1] < high}
    IN  { [stock_id |-> s, hits |-> Cardinality({m \in hit : m.stock_id = s})]
          : s \in {m.stock_id : m \in hit} }

\* CTE perf_table
perf_table(prices, year, price_field) ==
    LET sel == {p \in prices : year_filter(p, year)}
    IN  IF \E p \in sel : DivisionByZero(p[price_field], p.year_open) THEN Failed
        ELSE Rows({ [stock_id |-> SPLIT_PART_1(p.symbol), symbol |-> p.symbol,
                     ret |-> pct_return(p[price_field], p.year_open)] : p \in sel })

\* The primary query of fetch_prob_data: GROUP BY hits over joined_data, each
\* statistic rounded to one decimal (rets: the returns a group ranges over)
fetch_prob_data(d, year, metric_col, low, high, price_field) ==
    LET h == hit_table(d.revenue, year, metric_col, low, high)
        p == perf_table(d.prices, year, price_field)
        joined == {j \in h \X p.rows : j[1].stock_id = j[2].stock_id}
        G(n) == {<<j[2].symbol, j[2].ret>> : j \in {x \in joined : x[1].hits = n}}
        row(n, g) == [hits |-> n,
                      stock_count |-> Cardinality(g),
                      rets |-> g,
                      avg |-> ROUND1(MEAN(g)),
                      median |-> ROUND1(MEDIAN(g)),
                      win_rate |-> ROUND1(RateAbove(g, 20)),
                      double_rate |-> ROUND1(RateAbove(g, 100)),
                      min |-> ROUND1(MIN(g)),
                      max |-> ROUND1(MAX(g)),
                      std |-> STDDEV_ROUND1(g)]
        rows == {row(n, G(n)) : n \in {j[1].hits : j \in joined}}
    IN  IF ~p.ok THEN QueryFailed
        ELSE QueryResult(p.rows,
                         {m \in d.revenue : hit_window(m.report_month, year)},
                         rows)

NoPrice == [symbol |-> NULL, year |-> NULL, year_open |-> NULL,
            year_close |-> NULL, year_high |-> NULL]

\* detail_query of the probability page: hit_table h
\*   LEFT JOIN stock_annual_k k ON h.stock_id = SPLIT_PART(k.symbol, '.', 1) AND k.year = '{year}'
\*   LEFT JOIN monthly_revenue m ON h.stock_id = m.stock_id
\*        AND (m.report_month LIKE '{M}_%' OR m.report_month = '{prev}_12')
\*   WHERE h.hits = {selected_hits}
\*   GROUP BY h.stock_id, m.stock_name, k.{price_field}, k.year_open, h.hits  LIMIT 100
\* (months: the report months of the rows a group aggregates)
prob_detail_query(d, year, metric_col, low, high, price_field, selected_hits) ==
    LET h == {x \in hit_table(d.revenue, year, metric_col, low, high) : x.hits = selected_hits}
        K(s) == LET ks == {k \in d.prices : s = SPLIT_PART_1(k.symbol) /\ k.year = year}
                IN  IF ks = {} THEN {NoPrice} ELSE ks
        M(s) == {m \in d.revenue : s = m.stock_id /\ detail_join_window(m.report_month, year)}
        joined == UNION { ({x} \X K(x.stock_id)) \X M(x.stock_id) : x \in h }
        key(j) == <<j[1][1].stock_id, j[2].stock_name, j[1][2][price_field],
                    j[1][2].year_open, j[1][1].hits>>
        G(k) == {j[2] : j \in {x \in joined : key(x) = k}}
        rows == { [stock_id |-> k[1], stock_name |-> k[2], hits |-> k[5],
                   annual_ret |-> ROUND1(pct_return(k[3], k[4])),
                   avg_growth |-> ROUND1(AVG(G(k), metric_col)),
                   remarks |-> {m.remark : m \in {x \in G(k) : HasRemark(x)}},
                   months |-> {m.report_month : m \in G(k)}]
                  : k \in {key(j) : j \in joined} }
    IN  IF \E j \in joined : DivisionByZero(j[1][2][price_field], j[1][2].year_open)
        THEN QueryFailed
        ELSE QueryResult({}, UNION {M(x.stock_id) : x \in h}, LIMIT_NULLS_LAST(rows, 100))

\* fetch_prob_data_alt: the joined rows (h.hits, p.ret) grouped by hits in Python,
\* each statistic rounded with round(x, 1); an empty result is an empty frame
fetch_prob_data_alt(d, year, metric_col, low, high, price_field) ==
    LET h == hit_table(d.revenue, year, metric_col, low, high)
        p == perf_table(d.prices, year, price_field)
        raw_df == {j \in h \X p.rows : j[1].stock_id = j[2].stock_id}
        groups(n) == {<<j[2].symbol, j[2].ret>> : j \in {x \in raw_df : x[1].hits = n}}
        row(n, group) == [hits |-> n,
                          stock_count |-> Cardinality(group),
                          rets |-> group,
                          avg |-> round1(MEAN(group)),
                          median |-> round1(MEDIAN(group)),
                          win_rate |-> round1(RateAbove(group, 20)),
                          double_rate |-> round1(RateAbove(group, 100)),
                          min |-> round1(MIN(group)),
                          max |-> round1(MAX(group)),
                          std |-> std_round1_alt(group)]
        result == {row(n, groups(n)) : n \in {j[1].hits : j \in raw_df}}
    IN  IF ~p.ok THEN QueryFailed
        ELSE QueryResult(p.rows,
                         {m \in d.revenue : hit_window(m.report_month, year)},
                         result)

\* list_query of the multi-year comparison: SELECT h.stock_id, h.hits FROM hit_table h LIMIT 100
list_query(d, year, metric_col, low, high) ==
    QueryResult({}, {m \in d.revenue : hit_window(m.report_month, year)},
                hit_table(d.revenue, year, metric_col, low, high))

\* fetch_multi_year_data: the annual returns of the listed stocks in the years
\* target_year - 2 .. target_year + 1; no query for an empty list
fetch_multi_year_data(d, stock_list, target_year, price_field) ==
    LET sel == {p \in d.prices :
                  /\ SPLIT_PART_1(p.symbol) \in stock_list
                  /\ int(p.year) >= int(target_year) - 2
                  /\ int(p.year) <= int(target_year) + 1}
    IN  IF \E p \in sel : DivisionByZero(p[price_field], p.year_open) THEN QueryFailed
        ELSE QueryResult({}, {},
                         { [stock_id |-> SPLIT_PART_1(p.symbol), year |-> p.year,
                            annual_return |-> pct_return(p[price_field], p.year_open)]
                           : p \in sel })

-----------------------------------------------------------------------------
(* Sidebar options *)

\* [str(y) for y in range(2025, 2019, -1)]
YearOptions == {str(y) : y \in 2020..2025}

\* selectbox(..., index=1)
DefaultYear == str(2024)

\* select_slider("顯示筆數", options=[10, 20, 50, 100], value=50)
LimitOptions == {10, 20, 50, 100}

\* select_slider(options=[-50, 0, 20, 50, 100, 150, 200, 300, 500, 1000], value=(100, 1000))
DefaultGrowthRange == <<100, 1000>>

PriceFields == {"year_close", "year_high"}

Pages == {"app", "high", "prob"}

\* The keywords tried in the drill-down's text input: '', 'AI'
Keywords == {<<>>, <<"A", "I">>}

NoLabel == Label(0, 0, "")

DefaultWidgets(page) ==
    [page |-> page, target_year |-> DefaultYear, target_col |-> "yoy_pct",
     stat_method |-> stat_methods[1], price_field |-> "year_close",
     growth_range |-> DefaultGrowthRange, show_multi_year |-> FALSE,
     selected_bin |-> NoLabel, search_keyword |-> <<>>, display_limit |-> 50,
     quick_stat |-> 1, selected_hits |-> 0]

\* get_latest_data_date's answer when the query fails ("資料擷取中")
Fetching == "fetching"

NoView == [latest_date |-> "", heatmap |-> QueryNotRun, summary |-> QueryNotRun,
           detail |-> QueryNotRun, quick |-> QueryNotRun, prob |-> QueryNotRun,
           alt_used |-> FALSE, stock_list |-> QueryNotRun, multi_year |-> QueryNotRun,
           prob_detail |-> QueryNotRun, links |-> {},
           expected |-> QueryNotRun, timing |-> QueryNotRun]

-----------------------------------------------------------------------------
(* The database connection and st.cache_data                                *)

\* @st.cache_data(ttl=3600)
ttl == 3600

\* What the database answers to a query whose rows would be res: an error when it
\* cannot be reached, or when the query calls percentile_cont and the store has none
Execute(res, calls_percentile_cont) ==
    IF ~db.up \/ (calls_percentile_cont /\ ~db.percentile_cont) THEN QueryFailed ELSE res

\* The aggregates of the sidebar that call percentile_cont
CallsPercentileCont(stat_method) ==
    stat_method \in {"median (excluding extremes)", "iqr (dispersion)"}

Fresh_any_args(fn, args) == {e \in cache : e.fn = fn /\ clock - e.at < ttl}

\* The stored results of fn(args) that are younger than the ttl
Fresh(fn, args) == {e \in cache : e.fn = fn /\ e.args = args /\ clock - e.at < ttl}

cache_data_always_runs(fn, args, outcome) ==
    [value |-> outcome.value, ok |-> outcome.ok, trips |-> outcome.trips,
     sent |-> outcome.sent,
     cache |-> IF outcome.ok
               THEN {e \in cache : ~(e.fn = fn /\ e.args = args)}
                       \cup {[fn |-> fn, args |-> args, at |-> clock, value |-> outcome.value]}
               ELSE cache]

\* A call of a function under @st.cache_data: a fresh stored result is returned
\* without running the function; otherwise the function runs (its outcome is
\* [value, ok, trips, sent], sent being the queries it sends in order) and the
\* value it returns is stored; a raised exception is not stored.
cache_data(fn, args, outcome) ==
    IF Fresh(fn, args) # {}
    THEN [value |-> (CHOOSE e \in Fresh(fn, args) : TRUE).value, ok |-> TRUE,
          trips |-> 0, sent |-> <<>>, cache |-> cache]
    ELSE [value |-> outcome.value, ok |-> outcome.ok, trips |-> outcome.trips,
          sent |-> outcome.sent,
          cache |-> IF outcome.ok
                    THEN {e \in cache : ~(e.fn = fn /\ e.args = args)}
                            \cup {[fn |-> fn, args |-> args, at |-> clock,
                                   value |-> outcome.value]}
                    ELSE cache]

OneQuery_caught(q, res) ==
    [value |-> res, ok |-> TRUE, trips |-> 1, sent |-> <<[query |-> q, ok |-> res.ok]>>]

\* The outcome of a function that sends the one query q and lets its exception through
OneQuery(q, res) ==
    [value |-> res, ok |-> res.ok, trips |-> 1, sent |-> <<[query |-> q, ok |-> res.ok]>>]

\* The history of the session: the queries the current script run has sent, the
\* cached call made by the last step, and, in the sessions that keep them
\* (observed), for each cached function and argument tuple the last call that
\* returned less than a ttl ago
NoCall == [fn |-> "", args |-> <<>>, value |-> QueryNotRun, ok |-> FALSE, trips |-> 0]

NoHist == [sent |-> <<>>, called |-> NoCall, returned |-> {}, observed |-> FALSE]

\* ... after a call of fn(args) under st.cache_data that went as c
Called(fn, args, c) ==
    [sent |-> hist.sent \o c.sent,
     called |-> [fn |-> fn, args |-> args, value |-> c.value, ok |-> c.ok, trips |-> c.trips],
     observed |-> hist.observed,
     returned |-> IF c.ok /\ hist.observed
                  THEN {e \in hist.returned : ~(e.fn = fn /\ e.args = args)}
                          \cup {[fn |-> fn, args |-> args, at |-> clock, value |-> c.value]}
                  ELSE hist.returned]

\* ... after the query q sent outside any cache
Sent(h, q, ok) == [h EXCEPT !.sent = Append(@, [query |-> q, ok |-> ok]), !.called = NoCall]

\* ... after a step that calls nothing
NothingCalled == [hist EXCEPT !.called = NoCall]

-----------------------------------------------------------------------------
(* The links to the AI chat websites *)

\* The head of the prompt a page writes: the year, the metric and a line end (the
\* tables that follow it are left out)
prompt_text(w) ==
    w.target_year \o <<" ">>
        \o (IF w.target_col = "yoy_pct" THEN <<"Y", "o", "Y">> ELSE <<"M", "o", "M">>)
        \o <<"%", "\n">>

\* urllib.parse.quote: letters, digits and "_.-~/" stay; any other character
\* becomes "%" and the two hex digits of its byte
quote_character(c) ==
    IF c = " " THEN <<"%", "2", "0">>
    ELSE IF c = "%" THEN <<"%", "2", "5">>
    ELSE IF c = "\n" THEN <<"%", "0", "A">>
    ELSE <<c>>

RECURSIVE quote(_)
quote(s) == IF s = <<>> THEN <<>> ELSE quote_character(Head(s)) \o quote(Tail(s))

\* A rendered link: the address and its q parameter (NULL when it has none)
Link(url, q) == [url |-> url, q |-> q]

\* src/app.py:625-648: the ChatGPT button, the Claude button and the DeepSeek link
ai_links(w) ==
    {Link("https://chatgpt.com/", NULL),
     Link("https://claude.ai/new", Val(quote(prompt_text(w)))),
     Link("https://chat.deepseek.com", NULL)}

\* src/pages/11_app_high.py:423-429
ai_links_high(w) ==
    {Link("https://chatgpt.com/", NULL),
     Link("https://claude.ai/new", NULL),
     Link("https://chat.deepseek.com/", NULL)}

\* src/pages/probability.py:441-455
ai_links_prob(w) ==
    {Link("https://chatgpt.com/", Val(quote(prompt_text(w)))),
     Link("https://chat.deepseek.com/", NULL)}

-----------------------------------------------------------------------------
(* One script run of a page, step by step in the order of the script         *)

\* src/app.py:11-22 (and the same function of the other pages), reached by the
\* first database step of a run: without the secrets st.error and st.stop end the
\* run; with them the engine is made once and kept by st.cache_resource
get_engine ==
    /\ pc = "start"
    /\ ~db.secrets
    /\ pc' = "stopped"
    /\ hist' = NothingCalled
    /\ UNCHANGED <<db, widgets, view, trips, cache, clock>>

\* src/app.py:23-37, 61: SELECT MAX(date) FROM stock_prices; any exception is
\* caught and answered with "資料擷取中", which is stored like a date
get_latest_data_date ==
    /\ pc = "start"
    /\ db.secrets
    /\ widgets.page = "app"
    /\ LET c == cache_data("get_latest_data_date", <<>>,
                           [value |-> IF db.up THEN db.max_date ELSE Fetching,
                            ok |-> TRUE, trips |-> 1,
                            sent |-> <<[query |-> "get_latest_data_date", ok |-> db.up]>>])
       IN  /\ view' = [view EXCEPT !.latest_date = c.value]
           /\ trips' = trips + c.trips
           /\ cache' = c.cache
           /\ hist' = Called("get_latest_data_date", <<>>, c)
    /\ pc' = "sidebar"
    /\ UNCHANGED <<db, widgets, clock>>

\* src/app.py:463  df = fetch_heatmap_data(target_year, target_col, stat_method)
QueryHeatmap ==
    /\ pc = "sidebar"
    /\ widgets.page = "app"
    /\ LET args == <<widgets.target_year, widgets.target_col, widgets.stat_method>>
           c == cache_data("fetch_heatmap_data", args,
                    OneQuery("fetch_heatmap_data",
                             Execute(fetch_heatmap_data(db, args[1], args[2], args[3]),
                                     CallsPercentileCont(args[3]))))
       IN  /\ view' = [view EXCEPT !.heatmap = c.value]
           /\ trips' = trips + c.trips
           /\ cache' = c.cache
           /\ hist' = Called("fetch_heatmap_data", args, c)
           /\ pc' = IF c.ok THEN "heatmap" ELSE "error"
    /\ UNCHANGED <<db, widgets, clock>>

\* src/app.py:464  stat_summary = fetch_stat_summary(target_year, target_col)
QuerySummary ==
    /\ pc = "heatmap"
    /\ widgets.page = "app"
    /\ LET args == <<widgets.target_year, widgets.target_col>>
           c == cache_data("fetch_stat_summary", args,
                    OneQuery("fetch_stat_summary",
                             Execute(fetch_stat_summary(db, args[1], args[2]), TRUE)))
       IN  /\ view' = [view EXCEPT !.summary = c.value]
           /\ trips' = trips + c.trips
           /\ cache' = c.cache
           /\ hist' = Called("fetch_stat_summary", args, c)
           /\ pc' = IF c.ok THEN "summary" ELSE "error"
    /\ UNCHANGED <<db, widgets, clock>>

\* src/app.py:466, 625-648, 659-729, 818: "if not df.empty": the AI links, then the
\* drill-down of the bin picked from pivot_df.index, with the limit and the
\* keyword, sent on a connection of its own and outside any cache; "else": a
\* warning and the end of the run
QueryDetail ==
    /\ pc = "summary"
    /\ widgets.page = "app"
    /\ IF view.heatmap.rows = {}
       THEN /\ pc' = "done"
            /\ hist' = NothingCalled
            /\ UNCHANGED <<db, widgets, view, trips>>
       ELSE \E bin \in {r.return_bin : r \in view.heatmap.rows} :
               \E out \in {read_detail_query(db, widgets.target_year, bin,
                                             widgets.search_keyword, widgets.display_limit)} :
                   /\ widgets' = [widgets EXCEPT !.selected_bin = bin]
                   /\ view' = [view EXCEPT !.detail = out.result, !.links = ai_links(widgets)]
                   /\ trips' = trips + 1
                   /\ hist' = Sent(hist, "detail_query", out.result.ok)
                   /\ pc' = IF out.result.ok THEN "detail" ELSE "error"
                   /\ db' = [db EXCEPT !.prices = out.tables.prices,
                                       !.revenue = out.tables.revenue]
    /\ UNCHANGED <<cache, clock>>

\* src/app.py:756-807: the expander's radio ["中位數", "平均值", "標準差", "變異係數"],
\* quick_stat being the place of the chosen word, which is also the place in
\* stat_methods of the one method whose name holds it; when df holds no row of
\* that method its heatmap is fetched
QuickStat ==
    /\ pc = "detail"
    /\ widgets.page = "app"
    /\ LET method == quick_stat_method(widgets.quick_stat)
           args == <<widgets.target_year, widgets.target_col, method>>
           c == cache_data("fetch_heatmap_data", args,
                    OneQuery("fetch_heatmap_data",
                             Execute(fetch_heatmap_data(db, args[1], args[2], args[3]),
                                     CallsPercentileCont(args[3]))))
           display_df == {r \in view.heatmap.rows :
                            contains(method_text(r.stat_method),
                                     quick_stat_words[widgets.quick_stat])}
       IN  IF display_df # {}
           THEN /\ view' = [view EXCEPT !.quick = [view.heatmap EXCEPT !.rows = display_df]]
                /\ pc' = "done"
                /\ hist' = NothingCalled
                /\ UNCHANGED <<trips, cache>>
           ELSE /\ view' = [view EXCEPT !.quick = c.value]
                /\ trips' = trips + c.trips
                /\ cache' = c.cache
                /\ hist' = Called("fetch_heatmap_data", args, c)
                /\ pc' = IF c.ok THEN "done" ELSE "error"
    /\ UNCHANGED <<db, widgets, clock>>

\* src/pages/11_app_high.py:290
QueryHeatmapHigh ==
    /\ pc = "start"
    /\ db.secrets
    /\ widgets.page = "high"
    /\ LET args == <<widgets.target_year, widgets.target_col, widgets.stat_method>>
           c == cache_data("fetch_heatmap_data_high", args,
                    OneQuery("fetch_heatmap_data_high",
                             Execute(fetch_heatmap_data_high(db, args[1], args[2], args[3]),
                                     CallsPercentileCont(args[3]))))
       IN  /\ view' = [view EXCEPT !.heatmap = c.value]
           /\ trips' = trips + c.trips
           /\ cache' = c.cache
           /\ hist' = Called("fetch_heatmap_data_high", args, c)
           /\ pc' = IF c.ok THEN "heatmap" ELSE "error"
    /\ UNCHANGED <<db, widgets, clock>>

\* src/pages/11_app_high.py:291, 293, 423-429: the summary, then inside
\* "if not df.empty" the AI links
QuerySummaryHigh ==
    /\ pc = "heatmap"
    /\ widgets.page = "high"
    /\ LET args == <<widgets.target_year, widgets.target_col>>
           c == cache_data("fetch_stat_summary_high", args,
                    OneQuery("fetch_stat_summary_high",
                             Execute(fetch_stat_summary_high(db, args[1], args[2]), TRUE)))
       IN  /\ view' = [view EXCEPT !.summary = c.value,
                                   !.links = IF c.ok /\ view.heatmap.rows # {}
                                             THEN ai_links_high(widgets) ELSE {}]
           /\ trips' = trips + c.trips
           /\ cache' = c.cache
           /\ hist' = Called("fetch_stat_summary_high", args, c)
           /\ pc' = IF c.ok THEN "done" ELSE "error"
    /\ UNCHANGED <<db, widgets, clock>>

fetch_prob_data_outcome_retry(year, metric_col, low, high, price_field) ==
    LET outcome(primary, alt) ==
          IF primary.ok
          THEN [value |-> primary, ok |-> TRUE, trips |-> 1, alt |-> FALSE,
                sent |-> <<[query |-> "fetch_prob_data", ok |-> TRUE]>>]
          ELSE [value |-> alt, ok |-> alt.ok, trips |-> 3, alt |-> TRUE,
                sent |-> <<[query |-> "fetch_prob_data", ok |-> FALSE],
                           [query |-> "fetch_prob_data", ok |-> FALSE],
                           [query |-> "fetch_prob_data_alt", ok |-> alt.ok]>>]
    IN  outcome(Execute(fetch_prob_data(db, year, metric_col, low, high, price_field), TRUE),
                Execute(fetch_prob_data_alt(db, year, metric_col, low, high, price_field), FALSE))

\* src/pages/probability.py:52-101: the primary query; when it raises, the result
\* of fetch_prob_data_alt, whose own exception goes through
fetch_prob_data_outcome(year, metric_col, low, high, price_field) ==
    LET outcome(primary, alt) ==
          IF primary.ok
          THEN [value |-> primary, ok |-> TRUE, trips |-> 1, alt |-> FALSE,
                sent |-> <<[query |-> "fetch_prob_data", ok |-> TRUE]>>]
          ELSE [value |-> alt, ok |-> alt.ok, trips |-> 2, alt |-> TRUE,
                sent |-> <<[query |-> "fetch_prob_data", ok |-> FALSE],
                           [query |-> "fetch_prob_data_alt", ok |-> alt.ok]>>]
    IN  outcome(Execute(fetch_prob_data(db, year, metric_col, low, high, price_field), TRUE),
                Execute(fetch_prob_data_alt(db, year, metric_col, low, high, price_field), FALSE))

\* src/pages/probability.py:259
QueryProb ==
    /\ pc = "start"
    /\ db.secrets
    /\ widgets.page = "prob"
    /\ LET args == <<widgets.target_year, widgets.target_col, widgets.growth_range[1],
                     widgets.growth_range[2], widgets.price_field>>
       IN  \E o \in {fetch_prob_data_outcome(args[1], args[2], args[3], args[4], args[5])} :
           \E c \in {cache_data("fetch_prob_data", args, o)} :
               /\ view' = [view EXCEPT !.prob = c.value,
                                       !.alt_used = (c.trips > 0 /\ o.alt)]
               /\ trips' = trips + c.trips
               /\ cache' = c.cache
               /\ hist' = Called("fetch_prob_data", args, c)
               /\ pc' = IF c.ok THEN "prob" ELSE "error"
    /\ UNCHANGED <<db, widgets, clock>>

\* src/pages/probability.py:261, 441-455, 458-532: inside "if not df_prob.empty",
\* the AI links, then when the checkbox is ticked: the stock list on a connection of its own, then
\* fetch_multi_year_data of the listed stocks; an exception is caught and reported
MultiYear ==
    /\ pc = "prob"
    /\ widgets.page = "prob"
    /\ IF view.prob.rows = {}
       THEN /\ pc' = "done"
            /\ hist' = NothingCalled
            /\ UNCHANGED <<view, trips, cache>>
       ELSE /\ pc' = "multi"
            /\ IF ~widgets.show_multi_year
               THEN /\ hist' = NothingCalled
                    /\ view' = [view EXCEPT !.links = ai_links_prob(widgets)]
                    /\ UNCHANGED <<trips, cache>>
               ELSE LET list == Execute(list_query(db, widgets.target_year, widgets.target_col,
                                                   widgets.growth_range[1],
                                                   widgets.growth_range[2]), FALSE)
                        ids == {r.stock_id : r \in list.rows}
                        args == <<ids, widgets.target_year, widgets.price_field>>
                        c == cache_data("fetch_multi_year_data", args,
                                 OneQuery("fetch_multi_year_data",
                                          Execute(fetch_multi_year_data(db, args[1], args[2],
                                                                        args[3]), FALSE)))
                    IN  IF ~list.ok \/ ids = {}
                        THEN /\ view' = [view EXCEPT !.stock_list = list,
                                                     !.links = ai_links_prob(widgets)]
                             /\ trips' = trips + 1
                             /\ hist' = Sent(hist, "list_query", list.ok)
                             /\ UNCHANGED cache
                        ELSE /\ view' = [view EXCEPT !.stock_list = list,
                                                     !.multi_year = c.value,
                                                     !.links = ai_links_prob(widgets)]
                             /\ trips' = trips + 1 + c.trips
                             /\ cache' = c.cache
                             /\ hist' = Called("fetch_multi_year_data", args,
                                               [c EXCEPT !.sent = <<[query |-> "list_query",
                                                                     ok |-> TRUE]>> \o @])
    /\ UNCHANGED <<db, widgets, clock>>

\* src/pages/probability.py:538-601: the detail list of the hit count picked from
\* df_prob, on a connection of its own; an exception is caught and reported
QueryProbDetail ==
    /\ pc = "multi"
    /\ widgets.page = "prob"
    /\ \E n \in {r.hits : r \in view.prob.rows} :
          LET res == Execute(prob_detail_query(db, widgets.target_year, widgets.target_col,
                                               widgets.growth_range[1],
                                               widgets.growth_range[2],
                                               widgets.price_field, n), FALSE)
          IN  /\ widgets' = [widgets EXCEPT !.selected_hits = n]
              /\ view' = [view EXCEPT !.prob_detail = res]
              /\ hist' = Sent(hist, "prob_detail_query", res.ok)
    /\ trips' = trips + 1
    /\ pc' = "done"
    /\ UNCHANGED <<db, cache, clock>>

NextQuery ==
    \/ get_engine
    \/ get_latest_data_date
    \/ QueryHeatmap
    \/ QuerySummary
    \/ QueryDetail
    \/ QuickStat
    \/ QueryHeatmapHigh
    \/ QuerySummaryHigh
    \/ QueryProb
    \/ MultiYear
    \/ QueryProbDetail

\* The first script run of a session on a database that answers, with or without
\* the secrets of the connection
InitRun(prices, revenue, w) ==
    /\ \E s \in BOOLEAN :
          db = [prices |-> prices, revenue |-> revenue, max_date |-> "2025-01-15",
                up |-> TRUE, percentile_cont |-> TRUE, secrets |-> s, writable |-> TRUE]
    /\ widgets = w
    /\ pc = "start"
    /\ view = NoView
    /\ trips = 0
    /\ cache = {}
    /\ clock = 0
    /\ hist = NoHist

-----------------------------------------------------------------------------
(* Databases *)

TSMC == [id |-> "2330", market |-> "TW"]

TCC == [id |-> "1101", market |-> "TW"]

PriceRow(symbol, year, o, c, h) ==
    [symbol |-> symbol, year |-> year, year_open |-> o, year_close |-> c, year_high |-> h]

RevenueRow(symbol, name, rm, yoy, mom, remark) ==
    [stock_id |-> symbol.id, stock_name |-> name, report_month |-> rm,
     yoy_pct |-> yoy, mom_pct |-> mom, remark |-> remark]

\* f"{roc}_{mm:02d}"
ReportMonth(roc, mm) ==
    str(roc) \o <<"_">> \o (IF mm < 10 THEN <<"0">> \o str(mm) ELSE str(mm))

NameTSMC == <<"T", "S", "M", "C">>

NameTCC == <<"T", "C", "C">>

(* One price record of the target year, any prices; one revenue row in the window *)

MaxPrice == 24

Prices == {NULL} \cup {Val(p) : p \in 0..MaxPrice}

OpenPrices == {NULL} \cup {Val(p) : p \in {0, 1, 2, 10, 20}}

InitBin ==
    \E o \in OpenPrices, c \in Prices, h \in Prices, page \in Pages :
        InitRun({PriceRow(TSMC, DefaultYear, o, c, h)},
                {RevenueRow(TSMC, NameTSMC, ReportMonth(113, 6), Val(150), Val(150), NULL)},
                DefaultWidgets(page))

SpecBin == InitBin /\ [][NextQuery]_vars

-----------------------------------------------------------------------------
(* The stated ranges of the 22 labels of the close-price page, as the label *)
(* texts give them: bin k covers lo <= r < hi, the first bin everything up  *)
(* to and including -100, the last bin everything from 1000 on.            *)

MainBinTable ==
    << [lo |-> -100, hi |-> -100, text |-> "down -100% or less"],
       [lo |-> -100, hi |-> -90,  text |-> "down -100% to -90%"],
       [lo |-> -90,  hi |-> -80,  text |-> "down -90% to -80%"],
       [lo |-> -80,  hi |-> -70,  text |-> "down -80% to -70%"],
       [lo |-> -70,  hi |-> -60,  text |-> "down -70% to -60%"],
       [lo |-> -60,  hi |-> -50,  text |-> "down -60% to -50%"],
       [lo |-> -50,  hi |-> -40,  text |-> "down -50% to -40%"],
       [lo |-> -40,  hi |-> -30,  text |-> "down -40% to -30%"],
       [lo |-> -30,  hi |-> -20,  text |-> "down -30% to -20%"],
       [lo |-> -20,  hi |-> -10,  text |-> "down -20% to -10%"],
       [lo |-> -10,  hi |-> 0,    text |-> "down -10% to 0%"],
       [lo |-> 0,    hi |-> 100,  text |-> "up 0-100%"],
       [lo |-> 100,  hi |-> 200,  text |-> "up 100-200%"],
       [lo |-> 200,  hi |-> 300,  text |-> "up 200-300%"],
       [lo |-> 300,  hi |-> 400,  text |-> "up 300-400%"],
       [lo |-> 400,  hi |-> 500,  text |-> "up 400-500%"],
       [lo |-> 500,  hi |-> 600,  text |-> "up 500-600%"],
       [lo |-> 600,  hi |-> 700,  text |-> "up 600-700%"],
       [lo |-> 700,  hi |-> 800,  text |-> "up 700-800%"],
       [lo |-> 800,  hi |-> 900,  text |-> "up 800-900%"],
       [lo |-> 900,  hi |-> 1000, text |-> "up 900-1000%"],
       [lo |-> 1000, hi |-> 1000, text |-> "up 1000% or more"] >>

\* The label 'kk. text' of bin k (k = 0 .. 21)
MainLabel(k) == Label(k \div 10, k % 10, MainBinTable[k + 1].text)

\* num/den (den > 0) lies in the stated range of bin k
InMainRange(k, num, den) ==
    LET b == MainBinTable[k + 1]
    IN  IF k = 0 THEN num <= b.hi * den
        ELSE IF k = 21 THEN num >= b.lo * den
        ELSE IF k = 1 THEN b.lo * den < num /\ num < b.hi * den
        ELSE b.lo * den <= num /\ num < b.hi * den

\* A price record whose annual return on the close price is defined
DefinedReturn(p) == p.year_open # NULL /\ p.year_close # NULL /\ p.year_open[1] > 0

\* The price records of the target year
TargetRecords == {p \in db.prices : p.year = widgets.target_year}

HeatmapRan == widgets.page = "app" /\ view.heatmap.ran /\ view.heatmap.ok

\* C1: on the close-price page every price record of the target year with a
\* defined return r = ((year_close - year_open) / year_open) * 100 gets exactly
\* one of the 22 labels, and it is the label of the one stated range that holds r.
C1_BucketingTotal ==
    HeatmapRan =>
        \A p \in TargetRecords : DefinedReturn(p) =>
            LET num == (p.year_close[1] - p.year_open[1]) * 100
                den == p.year_open[1]
                ks  == {k \in 0..21 : InMainRange(k, num, den)}
                bs  == {b \in view.heatmap.bins : b.symbol = p.symbol}
            IN  /\ Cardinality(ks) = 1
                /\ Cardinality(bs) = 1
                /\ \A b \in bs, k \in ks : b.return_bin = MainLabel(k) /\ b.bin_order = k

\* A record with a return of -45% has been put in '06. 下跌-50%至-40%'
C1_Witness ==
    /\ HeatmapRan
    /\ \E p \in TargetRecords :
          /\ DefinedReturn(p)
          /\ (p.year_close[1] - p.year_open[1]) * 100 = -45 * p.year_open[1]
    /\ \E b \in view.heatmap.bins : b.return_bin = MainLabel(6)

MainBoundaries == {-90, -80, -70, -60, -50, -40, -30, -20, -10, 0,
                   100, 200, 300, 400, 500, 600, 700, 800, 900, 1000}

\* The bin whose stated range starts at boundary value v
BinStartingAt(v) == CHOOSE k \in 1..21 : MainBinTable[k + 1].lo = v /\ k # 1

OnBoundary(p, v) ==
    DefinedReturn(p) /\ (p.year_close[1] - p.year_open[1]) * 100 = v * p.year_open[1]

\* C2: a return exactly on a boundary value -90, ..., -10, 0, 100, ..., 1000 is put
\* in the bin that starts at that value (lower bound inclusive, upper bound
\* exclusive), and a return of exactly -100 is put in '00. 下跌-100%以下'.
C2_BoundaryInclusive ==
    HeatmapRan =>
        \A p \in TargetRecords, b \in view.heatmap.bins : b.symbol = p.symbol =>
            /\ \A v \in MainBoundaries :
                  OnBoundary(p, v) => b.return_bin = MainLabel(BinStartingAt(v))
            /\ OnBoundary(p, -100) => b.return_bin = MainLabel(0)

\* A record with a return of exactly 200% has been put in '13. 上漲200-300%'
C2_Witness ==
    /\ HeatmapRan
    /\ \E p \in TargetRecords, b \in view.heatmap.bins :
          b.symbol = p.symbol /\ OnBoundary(p, 200) /\ b.return_bin = MainLabel(13)

-----------------------------------------------------------------------------
(* Two price records of the target year, each with its revenue row in the   *)
(* window: the order of the bins                                           *)

OrderOpens == {1, 10, 20}

OrderRows(symbol) ==
    {PriceRow(symbol, DefaultYear, Val(o), Val(p), Val(p)) : o \in OrderOpens, p \in 0..MaxPrice}

InitOrder ==
    \E p1 \in OrderRows(TSMC), p2 \in OrderRows(TCC), page \in Pages :
        InitRun({p1, p2},
                {RevenueRow(TSMC, NameTSMC, ReportMonth(113, 6), Val(150), Val(150), NULL),
                 RevenueRow(TCC, NameTCC, ReportMonth(113, 6), Val(20), Val(20), NULL)},
                DefaultWidgets(page))

SpecOrder == InitOrder /\ [][NextQuery]_vars

\* r1 <= r2 for two returns <<num, den>> with positive denominators
ReturnLe(r1, r2) == r1[1] * r2[2] <= r2[1] * r1[2]

\* The order of two label strings 'dd. text' as far as their two leading digits decide it
PrefixLt(a, b) == a.d1 < b.d1 \/ (a.d1 = b.d1 /\ a.d2 < b.d2)

SamePrefix(a, b) == a.d1 = b.d1 /\ a.d2 = b.d2

\* The return column of a row of the price CTE of the page's heatmap query
ReturnColumn(b) == IF widgets.page = "app" THEN b.annual_return ELSE b.annual_max_return

HeatmapRanOnEitherPage == widgets.page \in {"app", "high"} /\ view.heatmap.ran /\ view.heatmap.ok

\* C3: on the close-price page (22 bins) and the high-price page (11 bins), of two
\* records with returns r1 <= r2 the first has bin_order <= the second's; the two
\* leading digits of every label are its bin_order; so the label strings of the
\* heatmap's rows sort exactly as their bin_order does.
C3_BinsOrdered ==
    HeatmapRanOnEitherPage =>
        /\ \A a \in view.heatmap.bins, b \in view.heatmap.bins :
              ReturnLe(ReturnColumn(a), ReturnColumn(b)) => a.bin_order <= b.bin_order
        /\ \A b \in view.heatmap.bins :
              /\ b.return_bin.d1 * 10 + b.return_bin.d2 = b.bin_order
              /\ b.bin_order \in (IF widgets.page = "app" THEN 0..21 ELSE 1..11)
        /\ \A a \in view.heatmap.rows, b \in view.heatmap.rows :
              /\ PrefixLt(a.return_bin, b.return_bin) <=> a.bin_order < b.bin_order
              /\ SamePrefix(a.return_bin, b.return_bin) => a.return_bin = b.return_bin

\* The heatmap holds a row of '05. ...' and a row of '14. ...'
C3_Witness ==
    /\ HeatmapRanOnEitherPage
    /\ widgets.page = "app"
    /\ \E a \in view.heatmap.rows, b \in view.heatmap.rows :
          a.bin_order = 5 /\ b.bin_order = 14 /\ PrefixLt(a.return_bin, b.return_bin)

-----------------------------------------------------------------------------
(* A fixed database, every choice of the sidebar's metric and statistic     *)

\* A method name the selectbox does not offer (the functions' else branch)
OtherMethod == "mode (most frequent)"

MethodNames == {stat_methods[i] : i \in 1..Len(stat_methods)} \cup {OtherMethod}

StatPrices ==
    {PriceRow(TSMC, DefaultYear, Val(10), Val(13), Val(15)),
     PriceRow(TCC, DefaultYear, Val(20), Val(15), Val(22))}

StatRevenue ==
    {RevenueRow(TSMC, NameTSMC, ReportMonth(113, 6), Val(150), Val(30), NULL),
     RevenueRow(TSMC, NameTSMC, ReportMonth(113, 7), Val(-20), Val(0), NULL),
     RevenueRow(TCC, NameTCC, ReportMonth(113, 6), Val(20), Val(-5), NULL)}

InitStat ==
    \E page \in Pages, col \in MetricColumns, m \in MethodNames, f \in PriceFields :
        /\ page = "prob" => m = stat_methods[1]
        /\ page # "prob" => f = "year_close"
        /\ InitRun(StatPrices, StatRevenue,
                   [DefaultWidgets(page) EXCEPT !.target_col = col, !.stat_method = m,
                                                !.price_field = f])

SpecStat == InitStat /\ [][NextQuery]_vars

\* What each of the eight names is said to select, in the order of the sidebar
StatedStatistics ==
    << "median", "mean", "stddev", "cv%", "skewness", "kurtosis", "iqr",
       "positive growth ratio%" >>

\* C5: on both heatmap pages each of the eight method names of the sidebar selects
\* its own aggregation formula and label (median, mean, stddev, coefficient of
\* variation, skewness, kurtosis, IQR, positive rate), a formula no other of the
\* eight names selects, and any other name selects the mean.
C5_StatDispatch ==
    HeatmapRanOnEitherPage =>
        \A row \in view.heatmap.rows :
            /\ \A i \in 1..8 : widgets.stat_method = stat_methods[i] =>
                  /\ row.stat_label = StatedStatistics[i]
                  /\ row.stat_method = stat_methods[i]
                  /\ \A j \in 1..8 : j # i =>
                        row.val.agg_func # agg_func(stat_methods[j], widgets.target_col)
            /\ widgets.stat_method = stat_methods[2] =>
                  row.val.agg_func = "AVG(m." \o widgets.target_col \o ")"
            /\ widgets.stat_method = OtherMethod =>
                  /\ row.val.agg_func = "AVG(m." \o widgets.target_col \o ")"
                  /\ row.stat_label = "mean"

\* The heatmap of the interquartile range has rows
C5_Witness ==
    /\ HeatmapRanOnEitherPage
    /\ widgets.stat_method = stat_methods[7]
    /\ \E row \in view.heatmap.rows : row.stat_label = "iqr"

-----------------------------------------------------------------------------
(* One revenue row with any report month, any target year: the window       *)

\* The ROC years of the rows: around every target year, and a two-digit year
MinguoYears == {99} \cup {int(y) - 1911 + d : y \in YearOptions, d \in {-1, 0, 1}}

ZeroPaddedMonths == {ReportMonth(roc, mm) : roc \in MinguoYears, mm \in 1..12}

\* f"{roc}_{mm}"
UnpaddedMonths == {str(roc) \o <<"_">> \o str(mm) : roc \in MinguoYears, mm \in 1..12}

WindowPrices == {PriceRow(TSMC, y, Val(10), Val(13), Val(15)) : y \in YearOptions}

InitWindow ==
    \E rm \in ZeroPaddedMonths \cup UnpaddedMonths, year \in YearOptions, page \in Pages :
        InitRun(WindowPrices,
                {RevenueRow(TSMC, NameTSMC, rm, Val(150), Val(150), NULL)},
                [DefaultWidgets(page) EXCEPT !.target_year = year])

SpecWindow == InitWindow /\ [][NextQuery]_vars

\* The twelve report months (M-1)_12, M_01, ..., M_11 of target year Y, M = Y - 1911
TwelveMonths(year) ==
    LET M == int(year) - 1911
    IN  {ReportMonth(M - 1, 12)} \cup {ReportMonth(M, mm) : mm \in 1..11}

\* The revenue rows the window of a query that ran has selected
SelectedBy(res) == {m.report_month : m \in res.months}

WindowIsTwelveMonths(res) ==
    (res.ran /\ res.ok) =>
        \A m \in db.revenue : m.report_month \in ZeroPaddedMonths =>
            (m.report_month \in SelectedBy(res)
                <=> m.report_month \in TwelveMonths(widgets.target_year))

\* C8: for target year Y (M = Y - 1911) the heatmap query and the summary query of
\* both pages and the hit table of the probability page select a revenue row with
\* a zero-padded report month exactly when its month is one of (M-1)_12, M_01, ...,
\* M_11; M_12 and the months of every other year are left out.
C8_WindowTwelveMonths ==
    /\ WindowIsTwelveMonths(view.heatmap)
    /\ WindowIsTwelveMonths(view.summary)
    /\ WindowIsTwelveMonths(view.prob)
    /\ view.prob.ran /\ view.prob.ok =>
          \A m \in db.revenue : m.report_month \in ZeroPaddedMonths =>
              ((\E r \in view.prob.rows : r.hits = 1)
                  <=> m.report_month \in TwelveMonths(widgets.target_year))

\* The December row of the target year has been left out by a heatmap query
C8_Witness ==
    /\ view.heatmap.ran /\ view.heatmap.ok
    /\ \E m \in db.revenue :
          /\ m.report_month = ReportMonth(int(widgets.target_year) - 1911, 12)
          /\ m.report_month \notin SelectedBy(view.heatmap)

-----------------------------------------------------------------------------
(* Two stocks with their price records and revenue rows: the joins          *)

OtherYear == str(2023)

\* <<year_open, year_close, year_high>> of a price record of the target year
PricePool ==
    { <<Val(10), Val(13), Val(15)>>,
      <<Val(10), Val(12), Val(30)>>,
      <<Val(10), Val(8), Val(9)>>,
      <<NULL, Val(13), Val(15)>>,
      <<Val(10), Val(13), NULL>>,
      <<Val(0), Val(13), Val(15)>> }

\* What a stock may have reported besides its June row: nothing, the December
\* of the target year, the December before it
SecondRows(symbol, name) ==
    { {},
      {RevenueRow(symbol, name, ReportMonth(113, 12), Val(300), Val(40), Val(<<"A", "I">>))},
      {RevenueRow(symbol, name, ReportMonth(112, 12), Val(150), Val(-10), Val(<<"-">>))} }

JuneRows(symbol, name, yoys) ==
    {RevenueRow(symbol, name, ReportMonth(113, 6), yoy, Val(5), NULL) : yoy \in yoys}

InitQuery ==
    \E a \in PricePool, b \in PricePool,
       ja \in JuneRows(TSMC, NameTSMC, {NULL, Val(150)}),
       sa \in SecondRows(TSMC, NameTSMC),
       jb \in JuneRows(TCC, NameTCC, {NULL, Val(150), Val(20)}),
       page \in Pages, year \in {DefaultYear, OtherYear}, f \in PriceFields,
       kw \in Keywords, lim \in LimitOptions :
        /\ page # "prob" => f = "year_close"
        /\ page # "app" => (kw = <<>> /\ lim = 50)
        /\ InitRun({PriceRow(TSMC, DefaultYear, a[1], a[2], a[3]),
                    PriceRow(TCC, DefaultYear, b[1], b[2], b[3]),
                    PriceRow(TSMC, OtherYear, Val(10), Val(20), Val(25))},
                   {ja, jb} \cup sa,
                   [DefaultWidgets(page) EXCEPT !.target_year = year, !.price_field = f,
                                                !.search_keyword = kw, !.display_limit = lim])

SpecQuery == InitQuery /\ [][NextQuery]_vars

-----------------------------------------------------------------------------
(* The drill-down of the close-price page against its heatmap               *)

DetailRan == widgets.page = "app" /\ view.detail.ran /\ view.detail.ok

\* The stocks the heatmap has counted in a bin, over all its months
CountedIn(bin) ==
    UNION { {v[1] : v \in row.val.values} : row \in {x \in view.heatmap.rows : x.return_bin = bin} }

\* The stocks the drill-down lists
ListedStocks == {r.stock_id : r \in view.detail.rows}

\* C4: the heatmap query, the summary query and the drill-down query of the
\* close-price page give every price record the same label, and with no keyword
\* typed the drill-down of a bin picked from the heatmap lists exactly the stocks
\* the heatmap counted in that bin.
C4_DrillDownMatchesHeatmap ==
    DetailRan =>
        /\ \A h \in view.heatmap.bins, s \in view.summary.bins, t \in view.detail.bins :
              (h.symbol = s.symbol /\ h.symbol = t.symbol) =>
                  (h.return_bin = s.return_bin /\ h.return_bin = t.return_bin)
        /\ (widgets.search_keyword = <<>>
              /\ Cardinality(CountedIn(widgets.selected_bin)) <= widgets.display_limit)
           => ListedStocks = CountedIn(widgets.selected_bin)

-----------------------------------------------------------------------------
(* The high-price page against the close-price page                         *)

\* The stated ranges of the 11 labels of the high-price page
HighBinTable ==
    << [lo |-> 0,    hi |-> 100,  text |-> "up 0-100%"],
       [lo |-> 100,  hi |-> 200,  text |-> "up 100-200%"],
       [lo |-> 200,  hi |-> 300,  text |-> "up 200-300%"],
       [lo |-> 300,  hi |-> 400,  text |-> "up 300-400%"],
       [lo |-> 400,  hi |-> 500,  text |-> "up 400-500%"],
       [lo |-> 500,  hi |-> 600,  text |-> "up 500-600%"],
       [lo |-> 600,  hi |-> 700,  text |-> "up 600-700%"],
       [lo |-> 700,  hi |-> 800,  text |-> "up 700-800%"],
       [lo |-> 800,  hi |-> 900,  text |-> "up 800-900%"],
       [lo |-> 900,  hi |-> 1000, text |-> "up 900-1000%"],
       [lo |-> 1000, hi |-> 1000, text |-> "up 1000% or more"] >>

\* The label 'kk. text' of bin k (k = 1 .. 11)
HighLabel(k) == Label(k \div 10, k % 10, HighBinTable[k].text)

InHighRange(k, num, den) ==
    LET b == HighBinTable[k]
    IN  IF k = 11 THEN num >= b.lo * den
        ELSE b.lo * den <= num /\ num < b.hi * den

HighHeatmapRan == widgets.page = "high" /\ view.heatmap.ran /\ view.heatmap.ok

HighSummaryRan == widgets.page = "high" /\ view.summary.ran /\ view.summary.ok

\* The price records the filters of the high-price page let through
PassesHighFilters(p) ==
    /\ p.year_open # NULL
    /\ p.year_high # NULL
    /\ p.year_open[1] > 0

SymbolsOf(rows) == {b.symbol : b \in rows}

RowsOfTwelveMonths == {m \in db.revenue : m.report_month \in TwelveMonths(widgets.target_year)}

\* C6 as stated: the heatmap and summary queries of the high-price page select the
\* price records and the revenue rows the close-price page's queries select (every
\* price record of the target year, the revenue rows of the twelve months).
C6_SameRecordsAsMainPage ==
    /\ HighHeatmapRan =>
          /\ SymbolsOf(view.heatmap.bins) = SymbolsOf(TargetRecords)
          /\ view.heatmap.months = RowsOfTwelveMonths
    /\ HighSummaryRan =>
          /\ SymbolsOf(view.summary.bins) = SymbolsOf(TargetRecords)
          /\ view.summary.months = RowsOfTwelveMonths

\* C6 amended: both pages select the revenue rows of the twelve months; the
\* close-price page selects every price record of the target year, the high-price
\* page only those whose year_open and year_high are not NULL and whose year_open
\* is above 0.
C6_HighPageFiltersRecords ==
    /\ HeatmapRan =>
          /\ SymbolsOf(view.heatmap.bins) = SymbolsOf(TargetRecords)
          /\ view.heatmap.months = RowsOfTwelveMonths
    /\ (widgets.page = "app" /\ view.summary.ran /\ view.summary.ok) =>
          /\ SymbolsOf(view.summary.bins) = SymbolsOf(TargetRecords)
          /\ view.summary.months = RowsOfTwelveMonths
    /\ HighHeatmapRan =>
          /\ SymbolsOf(view.heatmap.bins)
                = SymbolsOf({p \in TargetRecords : PassesHighFilters(p)})
          /\ view.heatmap.months = RowsOfTwelveMonths
    /\ HighSummaryRan =>
          /\ SymbolsOf(view.summary.bins)
                = SymbolsOf({p \in TargetRecords : PassesHighFilters(p)})
          /\ view.summary.months = RowsOfTwelveMonths

\* The summary query of the high-price page has left out a record without a
\* year_high and kept the other record of the year
C6_Witness ==
    /\ HighSummaryRan
    /\ \E p \in TargetRecords : p.year_high = NULL /\ p.symbol \notin SymbolsOf(view.summary.bins)
    /\ view.summary.bins # {}
    /\ view.summary.months # {}

\* C7: on the high-price page every price record that passes the query's filters
\* has a maximum return >= 0 and carries the label of the rising bin whose stated
\* range holds that return.
C7_HighNeverBelowOpen ==
    HighHeatmapRan =>
        \A b \in view.heatmap.bins :
            /\ b.annual_max_return # NULL
            /\ b.annual_max_return[1] >= 0
            /\ \E k \in 1..11 :
                  /\ InHighRange(k, b.annual_max_return[1], b.annual_max_return[2])
                  /\ b.return_bin = HighLabel(k)
                  /\ b.bin_order = k

-----------------------------------------------------------------------------
(* The detail list of the probability page against its hit count            *)

ProbDetailRan == widgets.page = "prob" /\ view.prob_detail.ran /\ view.prob_detail.ok

\* C9: on the probability page the average growth and the remarks of a stock in the
\* detail list are computed over report months of the twelve-month research period
\* (December of the previous year to November of the target year), the months its
\* hits were counted over.
C9_DetailOverHitMonths ==
    ProbDetailRan =>
        \A row \in view.prob_detail.rows :
            LET period == {m \in RowsOfTwelveMonths : m.stock_id = row.stock_id}
            IN  /\ row.months \subseteq TwelveMonths(widgets.target_year)
                /\ row.months \subseteq SelectedBy(view.prob)
                /\ row.avg_growth = ROUND1(AVG(period, widgets.target_col))
                /\ row.remarks = {m.remark : m \in {x \in period : HasRemark(x)}}

-----------------------------------------------------------------------------
(* A session: script runs one after the other, the cache they share, time    *)
(* passing and the database coming and going between them                   *)

MaxTicks == 2

\* The widget values a script run may start with
RunWidgets ==
    { [DefaultWidgets("app") EXCEPT !.stat_method = stat_methods[m], !.quick_stat = q]
        : m \in {1, 2}, q \in {1, 2} }
    \cup {DefaultWidgets("high")}
    \cup { [DefaultWidgets("prob") EXCEPT !.show_multi_year = b] : b \in BOOLEAN }

\* The script run has ended: at its last line, on an exception, or on st.stop
RunOver == pc \in {"done", "error", "stopped"}

\* A widget is touched or a page is opened: the script runs again from the top
Interact ==
    /\ RunOver
    /\ \E w \in RunWidgets : widgets' = w
    /\ pc' = "start"
    /\ view' = NoView
    /\ trips' = 0
    /\ hist' = [hist EXCEPT !.sent = <<>>, !.called = NoCall]
    /\ UNCHANGED <<db, cache, clock>>

\* Half a ttl passes between two script runs; st.cache_data drops what has expired
Tick ==
    /\ RunOver
    /\ clock < MaxTicks * (ttl \div 2)
    /\ clock' = clock + (ttl \div 2)
    /\ cache' = {e \in cache : clock' - e.at < ttl}
    /\ hist' = [hist EXCEPT !.called = NoCall,
                            !.returned = {e \in @ : clock' - e.at < ttl}]
    /\ UNCHANGED <<db, widgets, pc, view, trips>>

\* The database becomes unreachable, or reachable again
DbAvailability ==
    /\ RunOver
    /\ db' = [db EXCEPT !.up = ~db.up]
    /\ hist' = NothingCalled
    /\ UNCHANGED <<widgets, pc, view, trips, cache, clock>>

Init ==
    \E w \in RunWidgets, p \in BOOLEAN, s \in BOOLEAN :
        /\ db = [prices |-> StatPrices, revenue |-> StatRevenue, max_date |-> "2025-01-15",
                 up |-> TRUE, percentile_cont |-> p, secrets |-> s,
                 writable |-> TRUE]
        /\ widgets = w
        /\ pc = "start"
        /\ view = NoView
        /\ trips = 0
        /\ cache = {}
        /\ clock = 0
        /\ hist = NoHist

Next ==
    \/ NextQuery
    \/ Interact
    \/ Tick
    \/ DbAvailability

Spec == Init /\ [][Next]_vars

\* C10 as stated: a script run makes at most one database round trip, whatever the
\* cache holds.
C10_AtMostOneRoundTrip == trips <= 1

\* The round trips a script run of each page can add up to
TripBound ==
    /\ widgets.page = "app" => trips <= 5
    /\ widgets.page = "high" => trips <= 2
    /\ widgets.page = "prob" => trips <= 5

\* A heatmap or summary call of the close-price page that finds a fresh stored
\* result adds no round trip
FreshResultCostsNothing ==
    /\ (QueryHeatmap /\ Fresh("fetch_heatmap_data",
                              <<widgets.target_year, widgets.target_col,
                                widgets.stat_method>>) # {}) => trips' = trips
    /\ (QuerySummary /\ Fresh("fetch_stat_summary",
                              <<widgets.target_year, widgets.target_col>>) # {})
          => trips' = trips

\* The drill-down and the detail list add a round trip on every run that sends them
UncachedQueryCostsOne ==
    /\ (QueryDetail /\ view.heatmap.rows # {}) => trips' = trips + 1
    /\ QueryProbDetail => trips' = trips + 1

\* C10 amended: a script run makes at most five database round trips (five on the
\* close-price page, two on the high-price page, five on the probability page); a
\* cached call that finds a stored result younger than the ttl makes none, and the
\* drill-down and the detail list, which no cache holds, make one on every run
\* that reaches them.
C10_RoundTripsPerRun ==
    /\ []TripBound
    /\ [][FreshResultCostsNothing /\ UncachedQueryCostsOne]_vars

\* A run of the close-price page has ended after five round trips
C10_Witness == pc = "done" /\ widgets.page = "app" /\ trips = 5

-----------------------------------------------------------------------------
(* C11: sessions whose cached calls are kept in the history *)

\* One set of widget values per page, each making every cached call of its page
CacheWidgets ==
    {[DefaultWidgets("app") EXCEPT !.quick_stat = 2],
     DefaultWidgets("high"),
     [DefaultWidgets("prob") EXCEPT !.show_multi_year = TRUE]}

InitCache ==
    \E w \in CacheWidgets, s \in BOOLEAN :
        /\ db = [prices |-> StatPrices, revenue |-> StatRevenue, max_date |-> "2025-01-15",
                 up |-> TRUE, percentile_cont |-> TRUE, secrets |-> s,
                 writable |-> TRUE]
        /\ widgets = w
        /\ pc = "start"
        /\ view = NoView
        /\ trips = 0
        /\ cache = {}
        /\ clock = 0
        /\ hist = [NoHist EXCEPT !.observed = TRUE]

\* Interact offers RunWidgets: a session started on CacheWidgets stays in them
\* only if every later run does
NextCache ==
    \/ NextQuery
    \/ Interact /\ widgets' \in CacheWidgets
    \/ Tick
    \/ DbAvailability

SpecCache == InitCache /\ [][NextCache]_vars

\* The step calls a function under st.cache_data
CachedCall == hist'.called.fn # ""

\* The results the stored ones are held to: existing(fn, args) is every record of
\* held whose function and argument tuple are those and which is younger than the
\* ttl when the step is taken
Younger(held, fn, args) ==
    {e \in held : e.fn = fn /\ e.args = args /\ clock - e.at < ttl}

\* What fn(args) returns when it runs on the database of the session (whose
\* tables no step changes): the rows of its query, for get_latest_data_date the
\* date or the placeholder, for fetch_prob_data the rows of either query
ReturnsOf(fn, args) ==
    CASE fn = "get_latest_data_date" -> {db.max_date, Fetching}
      [] fn = "fetch_heatmap_data" -> {fetch_heatmap_data(db, args[1], args[2], args[3])}
      [] fn = "fetch_stat_summary" -> {fetch_stat_summary(db, args[1], args[2])}
      [] fn = "fetch_heatmap_data_high" ->
            {fetch_heatmap_data_high(db, args[1], args[2], args[3])}
      [] fn = "fetch_stat_summary_high" -> {fetch_stat_summary_high(db, args[1], args[2])}
      [] fn = "fetch_prob_data" ->
            {fetch_prob_data(db, args[1], args[2], args[3], args[4], args[5]),
             fetch_prob_data_alt(db, args[1], args[2], args[3], args[4], args[5])}
      [] fn = "fetch_multi_year_data" ->
            {fetch_multi_year_data(db, args[1], args[2], args[3])}

\* A result is served only while a result stored for the same function and
\* argument tuple is younger than the ttl
NeverServedOlder ==
    CachedCall /\ hist'.called.trips = 0 =>
        \E e \in Younger(cache, hist'.called.fn, hist'.called.args) :
            hist'.called.value = e.value

\* What a call returns is a result of its own function and argument tuple
NeverServedForAnotherTuple ==
    CachedCall /\ hist'.called.ok =>
        hist'.called.value \in ReturnsOf(hist'.called.fn, hist'.called.args)

\* C11 as stated: a call of a cached function with the arguments of a call that
\* returned less than 3600 seconds earlier sends no query and returns what that
\* call returned; no result is served once it is 3600 seconds old; no result is
\* served for another argument tuple.
C11_CachedSinceLastCall ==
    [][/\ CachedCall =>
            \A e \in Younger(hist.returned, hist'.called.fn, hist'.called.args) :
                /\ hist'.called.trips = 0
                /\ hist'.called.value = e.value
       /\ NeverServedOlder
       /\ NeverServedForAnotherTuple]_vars

\* C11 amended: the hour runs from the call that ran the function and stored its
\* result, and a call served from the cache does not extend it. A call of a
\* cached function with the arguments of a call that stored its result less than
\* 3600 seconds earlier sends no query and returns that result; no result is
\* served once it is 3600 seconds old; no result is served for another argument
\* tuple; a call that raised stored nothing.
C11_CachedSinceStored ==
    [][/\ CachedCall =>
            \A e \in Younger(cache, hist'.called.fn, hist'.called.args) :
                /\ hist'.called.trips = 0
                /\ hist'.called.value = e.value
       /\ NeverServedOlder
       /\ NeverServedForAnotherTuple
       /\ CachedCall /\ ~hist'.called.ok =>
            Younger(cache', hist'.called.fn, hist'.called.args) = {}]_vars

\* Half an hour after it was stored, a probability table has been served from the
\* cache
C11_Witness ==
    /\ hist.called.fn = "fetch_prob_data"
    /\ hist.called.trips = 0
    /\ \E e \in cache : e.fn = "fetch_prob_data" /\ clock - e.at = ttl \div 2

-----------------------------------------------------------------------------
(* C12: what a failed database step does to the script run *)

\* The queries sent with no try around them (src/app.py:233-234, 340-341, 728-729;
\* src/pages/11_app_high.py:188-189, 270-271; src/pages/probability.py:132-133)
Uncaught ==
    {"fetch_heatmap_data", "fetch_stat_summary", "detail_query",
     "fetch_heatmap_data_high", "fetch_stat_summary_high", "fetch_prob_data_alt"}

\* The queries sent inside a try whose except reports or replaces the failure
\* (src/app.py:25-37; src/pages/probability.py:94-101, 481-532, 570-601)
Caught ==
    {"get_latest_data_date", "fetch_prob_data", "list_query", "fetch_multi_year_data",
     "prob_detail_query"}

Halted == pc \in {"error", "stopped"}

\* A database step of the run has failed, the primary probability query, whose
\* failure the alternate path answers, left aside
FailedStep ==
    \/ pc = "stopped"
    \/ \E i \in 1..Len(hist.sent) :
          ~hist.sent[i].ok /\ hist.sent[i].query # "fetch_prob_data"

\* C12 as stated: after any failed database step of a script run (engine
\* creation, latest-date query, heatmap, summary or probability query, multi-year
\* query, detail query) the run has halted: no later part of the page is rendered.
C12_FailureHalts == FailedStep => Halted

\* The run ends on an exception exactly when the last query it sent is one of the
\* uncaught ones and failed
ErrorIffUncaughtFailure ==
    pc = "error" <=>
        /\ hist.sent # <<>>
        /\ ~hist.sent[Len(hist.sent)].ok
        /\ hist.sent[Len(hist.sent)].query \in Uncaught

\* Every query of the run is of one kind or the other, and a failure before the
\* last query is a caught one
EarlierFailuresCaught ==
    \A i \in 1..Len(hist.sent) :
        /\ hist.sent[i].query \in Uncaught \cup Caught
        /\ (i < Len(hist.sent) /\ ~hist.sent[i].ok) => hist.sent[i].query \in Caught

\* Without the secrets the run stops before any query and renders nothing
StoppedBeforeAnyQuery ==
    /\ pc = "stopped" => hist.sent = <<>> /\ view = NoView
    /\ ~db.secrets => pc \in {"start", "stopped"}

\* Once halted a run renders nothing more; the next thing is a new run
NothingAfterHalt == Halted => (view' = view /\ hist'.sent = hist.sent) \/ pc' = "start"

\* C12 amended: a failed engine creation shows a message and stops the run before
\* any query; a failed heatmap, summary, drill-down or alternate probability query
\* ends the run on its exception, and nothing later is rendered; a failed
\* latest-date query is answered with a placeholder, a failed primary probability
\* query with the alternate query, a failed stock-list, multi-year or detail-list
\* query of the probability page with a message, and the run goes on.
C12_HaltsUnlessCaught ==
    /\ [](ErrorIffUncaughtFailure /\ EarlierFailuresCaught /\ StoppedBeforeAnyQuery)
    /\ [][NothingAfterHalt]_vars

\* The detail list of the probability page has failed and the run has reached its
\* last line
C12_Witness ==
    /\ pc = "done"
    /\ widgets.page = "prob"
    /\ hist.sent # <<>>
    /\ ~hist.sent[Len(hist.sent)].ok
    /\ hist.sent[Len(hist.sent)].query = "prob_detail_query"

-----------------------------------------------------------------------------
(* C13: no retry, one fallback *)

\* No query follows a failed query of the same name in the run
NoRetry ==
    \A i, j \in 1..Len(hist.sent) :
        (i < j /\ hist.sent[i].query = hist.sent[j].query) => hist.sent[i].ok

\* The alternate query is sent right after a failed primary query, and only there
AlternateAfterFailedPrimary ==
    \A i \in 1..Len(hist.sent) :
        /\ hist.sent[i].query = "fetch_prob_data_alt" =>
              /\ i > 1
              /\ hist.sent[i - 1].query = "fetch_prob_data"
              /\ ~hist.sent[i - 1].ok
        /\ (hist.sent[i].query = "fetch_prob_data" /\ ~hist.sent[i].ok) =>
              /\ i < Len(hist.sent)
              /\ hist.sent[i + 1].query = "fetch_prob_data_alt"

\* ... once in the call, which is the one call of the run
AlternateOnce ==
    Cardinality({i \in 1..Len(hist.sent) : hist.sent[i].query = "fetch_prob_data_alt"}) <= 1

\* A failed alternate query is the last query of the run
NothingAfterFailedAlternate ==
    \A i \in 1..Len(hist.sent) :
        (hist.sent[i].query = "fetch_prob_data_alt" /\ ~hist.sent[i].ok) =>
            i = Len(hist.sent) /\ pc = "error"

\* C13: when the primary probability query fails the alternate query is sent
\* exactly once in that call; when the alternate fails too no further query is
\* sent; no failed query of any page is sent again in the same script run.
C13_NoRetryOneFallback ==
    /\ NoRetry
    /\ AlternateAfterFailedPrimary
    /\ AlternateOnce
    /\ NothingAfterFailedAlternate

\* Both probability queries have failed, each sent once
C13_Witness ==
    /\ pc = "error"
    /\ hist.sent = <<[query |-> "fetch_prob_data", ok |-> FALSE],
                     [query |-> "fetch_prob_data_alt", ok |-> FALSE]>>

-----------------------------------------------------------------------------
(* C14: the alternate probability query against the primary one *)

ProbTableRan == widgets.page = "prob" /\ view.prob.ran /\ view.prob.ok

\* The tables the two queries give for the widget values of the run
PrimaryTable ==
    fetch_prob_data(db, widgets.target_year, widgets.target_col, widgets.growth_range[1],
                    widgets.growth_range[2], widgets.price_field)

AlternateTable ==
    fetch_prob_data_alt(db, widgets.target_year, widgets.target_col, widgets.growth_range[1],
                        widgets.growth_range[2], widgets.price_field)

\* C14: for the same database content and the same (year, metric, low, high,
\* price field) the alternate query gives the table of the primary query: the
\* same hit counts and, for each, the same stock count, win rate, doubling rate,
\* minimum, maximum, median and standard deviation, groups of one stock and the
\* empty result included.
C14_AlternateEqualsPrimary ==
    ProbTableRan =>
        /\ AlternateTable.ok = PrimaryTable.ok
        /\ AlternateTable.rows = PrimaryTable.rows

\* The same comparison with the standard deviation of the groups of one row
\* left out
EqualButSingleStd ==
    LET cut(r) == IF r.stock_count = 1 THEN [r EXCEPT !.std = NULL] ELSE r
    IN  ProbTableRan =>
            {cut(r) : r \in AlternateTable.rows} = {cut(r) : r \in PrimaryTable.rows}

-----------------------------------------------------------------------------
(* C15, C16: what is typed into the keyword field of the drill-down *)

\* A keyword that ends the literal and the query, deletes the revenue rows, makes
\* the deletion last and leaves a SELECT for the lines after it
Injection ==
    <<"x", Quote, ")", "GROUP BY", ";", "DELETE FROM monthly_revenue", ";", "COMMIT", ";",
      "SELECT", "--">>

\* A name with an apostrophe
Apostrophe == <<"O", Quote, "N">>

\* st.text_input takes any text
TypedKeywords == Keywords \cup {Injection, Apostrophe}

InitKeyword ==
    \E a \in PricePool, b \in PricePool, page \in Pages, kw \in TypedKeywords,
       s \in BOOLEAN, wr \in BOOLEAN :
        /\ page # "app" => (kw = <<>> /\ wr)
        /\ ~s => (kw = <<>> /\ wr /\ a = b)
        /\ db = [prices |-> {PriceRow(TSMC, DefaultYear, a[1], a[2], a[3]),
                             PriceRow(TCC, DefaultYear, b[1], b[2], b[3])},
                 revenue |-> {RevenueRow(TSMC, NameTSMC, ReportMonth(113, 6), Val(150),
                                         Val(5), Val(<<"A", "I">>)),
                              RevenueRow(TCC, NameTCC, ReportMonth(113, 6), Val(150),
                                         Val(5), NULL)},
                 max_date |-> "2025-01-15", up |-> TRUE, percentile_cont |-> TRUE,
                 secrets |-> s, writable |-> wr]
        /\ widgets = [DefaultWidgets(page) EXCEPT !.search_keyword = kw, !.quick_stat = 2]
        /\ pc = "start"
        /\ view = NoView
        /\ trips = 0
        /\ cache = {}
        /\ clock = 0
        /\ hist = NoHist

SpecKeyword == InitKeyword /\ [][NextQuery]_vars

\* C15: the system is read-only: whatever pages are viewed and whatever is typed
\* into the keyword field, no step changes the content of the tables.
C15_TablesUnchanged ==
    [][/\ db'.prices = db.prices
       /\ db'.revenue = db.revenue
       /\ db'.max_date = db.max_date]_vars

\* select_slider(options=[-50, 0, 20, 50, 100, 150, 200, 300, 500, 1000])
GrowthOptions == {-50, 0, 20, 50, 100, 150, 200, 300, 500, 1000}

\* The values a widget with a list of options can give; the keyword field has no
\* list, the one value the code names for it is its default, the empty text
FromOptions ==
    /\ widgets.target_year \in YearOptions
    /\ widgets.target_col \in MetricColumns
    /\ widgets.stat_method \in {stat_methods[i] : i \in DOMAIN stat_methods}
    /\ widgets.price_field \in PriceFields
    /\ widgets.growth_range[1] \in GrowthOptions
    /\ widgets.growth_range[2] \in GrowthOptions
    /\ widgets.display_limit \in LimitOptions
    /\ widgets.selected_bin \in {NoLabel} \cup {MainLabel(k) : k \in 0..21}
    /\ widgets.search_keyword = <<>>

\* The text of the drill-down is the one statement of the code, and it parses
OneShape ==
    /\ injected_statements(widgets.search_keyword) = <<>>
    /\ text_parses(widgets.search_keyword)

\* C16: every value put into a query text comes from a fixed finite set of
\* options of the code, so every query sent has one of a fixed finite set of
\* shapes.
C16_OnlyEnumeratedOptions ==
    (widgets.page = "app" /\ view.detail.ran) => FromOptions /\ OneShape

-----------------------------------------------------------------------------
(* C17: the links to the AI chat websites *)

\* C17: every link to an AI chat website that a page renders carries the
\* generated prompt, URL-encoded, as a text parameter.
C17_LinksCarryPrompt ==
    \A l \in view.links : l.q = Val(quote(prompt_text(widgets)))

-----------------------------------------------------------------------------
(* C18: the pivot of the heatmap result into the bin-by-month grid *)

\* src/app.py:518  pivot_df = df.pivot(index='return_bin', columns='report_month', values='val')
\* pandas raises ValueError when two rows share an (index, column) pair; a pair
\* without a row is a missing cell
pivot(rows) ==
    LET index == {r.return_bin : r \in rows}
        columns == {r.report_month : r \in rows}
        at(b, m) == {r \in rows : r.return_bin = b /\ r.report_month = m}
    IN  IF \E b \in index, m \in columns : Cardinality(at(b, m)) > 1
        THEN [ok |-> FALSE, index |-> {}, columns |-> {}, cell |-> <<>>]
        ELSE [ok |-> TRUE, index |-> index, columns |-> columns,
              cell |-> [c \in index \X columns |->
                          IF at(c[1], c[2]) = {} THEN NULL
                          ELSE Val((CHOOSE r \in at(c[1], c[2]) : TRUE).val)]]

\* The page pivots the heatmap result it holds when that result has rows
pivot_df == pivot(view.heatmap.rows)

Pivoted ==
    /\ widgets.page \in {"app", "high"}
    /\ view.heatmap.ran /\ view.heatmap.ok
    /\ view.heatmap.rows # {}

\* The metric values of the records of bin b that reported in month m
BucketMonthValues(b, m) ==
    {<<j[2].stock_id, j[2][widgets.target_col]>> :
        j \in {k \in JoinBinsMonths(view.heatmap.bins, view.heatmap.months, widgets.target_col) :
                  k[1].return_bin = b /\ k[2].report_month = m}}

\* C18: in the heatmap result of the close-price page and of the high-price page
\* every pair (return_bin, report_month) is the pair of at most one row, so the
\* pivot into the bin-by-month grid does not fail, and every cell of the grid
\* that has a value holds the one statistic over all the records of its bin
\* that reported in its month.
C18_PivotUnique ==
    Pivoted =>
        /\ \A r1 \in view.heatmap.rows, r2 \in view.heatmap.rows :
              (r1.return_bin = r2.return_bin /\ r1.report_month = r2.report_month) => r1 = r2
        /\ pivot_df.ok
        /\ \A b \in pivot_df.index, m \in pivot_df.columns :
              LET c == pivot_df.cell[<<b, m>>]
              IN  IF BucketMonthValues(b, m) = {} THEN c = NULL
                  ELSE /\ c # NULL
                       /\ c[1].values = BucketMonthValues(b, m)
                       /\ c[1].agg_func = agg_func(widgets.stat_method, widgets.target_col)

\* Two stocks fall into one bin and both reported in one month: the grid's cell
\* of that bin and month holds the statistic over both
C18_Witness ==
    /\ Pivoted
    /\ pivot_df.ok
    /\ \E b \in pivot_df.index, m \in pivot_df.columns :
          /\ pivot_df.cell[<<b, m>>] # NULL
          /\ Cardinality(pivot_df.cell[<<b, m>>][1].values) = 2
    /\ Cardinality(view.heatmap.rows) >= 2

-----------------------------------------------------------------------------
(* C19: the sample total and the falling and rising counts of the prompt *)

\* The texts of the labels that hold the word of falling ('下跌', here "down")
\* and of rising ('上漲', here "up")
FallingTexts ==
    {"down -100% or less", "down -100% to -90%", "down -90% to -80%", "down -80% to -70%",
     "down -70% to -60%", "down -60% to -50%", "down -50% to -40%", "down -40% to -30%",
     "down -30% to -20%", "down -20% to -10%", "down -10% to 0%"}

RisingTexts ==
    {"up 0-100%", "up 100-200%", "up 200-300%", "up 300-400%", "up 400-500%", "up 500-600%",
     "up 600-700%", "up 700-800%", "up 800-900%", "up 900-1000%", "up 1000% or more"}

\* stat_summary['return_bin'].str.contains(word)
str_contains(label, word) ==
    IF word = "down" THEN label.text \in FallingTexts
    ELSE IF word = "up" THEN label.text \in RisingTexts
    ELSE FALSE

SetMax(S) == CHOOSE x \in S : \A y \in S : y <= x

RECURSIVE SetSum(_, _)
\* the sum of f[x] over the x of S
SetSum(S, f) ==
    IF S = {} THEN 0
    ELSE LET x == CHOOSE y \in S : TRUE
         IN  f[x] + SetSum(S \ {x}, f)

SetMin(S) == CHOOSE x \in S : \A y \in S : x <= y

\* The sum over the bins of the smallest per-month stock_count
total_samples_of_min(rows) ==
    LET index == {r.return_bin : r \in rows}
    IN  SetSum(index, [b \in index |-> SetMin({r.stock_count : r \in {x \in rows : x.return_bin = b}})])

\* src/app.py:469  df.groupby('return_bin')['stock_count'].max().sum()
total_samples_of(rows) ==
    LET index == {r.return_bin : r \in rows}
    IN  SetSum(index, [b \in index |-> SetMax({r.stock_count : r \in {x \in rows : x.return_bin = b}})])

\* src/app.py:459, 466-469
total_samples == IF view.heatmap.rows = {} THEN 0 ELSE total_samples_of(view.heatmap.rows)

\* stat_summary[stat_summary['return_bin'].str.contains(word)]['stock_count'].sum()
stocks_of(summary, word) ==
    LET S == {r \in summary : str_contains(r.return_bin, word)}
    IN  SetSum(S, [r \in S |-> r.stock_count])

total_falling_stocks == stocks_of(view.summary.rows, "down")

total_rising_stocks == stocks_of(view.summary.rows, "up")

\* count / total_samples * 100 as <<numerator, denominator>>; None when the
\* denominator is 0
ratio(count, total) == IF total = 0 THEN NULL ELSE Val(<<count * 100, total>>)

falling_ratio == ratio(total_falling_stocks, total_samples)

rising_ratio == ratio(total_rising_stocks, total_samples)

\* src/app.py:466, 612: the prompt is generated in the branch "if not df.empty",
\* after both queries of the main view have returned
PromptGenerated ==
    /\ widgets.page = "app"
    /\ view.heatmap.ran /\ view.heatmap.ok /\ view.heatmap.rows # {}
    /\ view.summary.ran /\ view.summary.ok

\* C19: the sample total passed to the prompt generator is the sum over the bins
\* of the summary's stock_count; so the falling count plus the rising count is
\* the sample total, the two percentages sum to 100 and each lies in 0..100;
\* the sample total divided by is not 0.
C19_SampleTotalIsStockCount ==
    PromptGenerated =>
        /\ total_samples # 0
        /\ SetSum(view.summary.rows, [r \in view.summary.rows |-> r.stock_count]) = total_samples
        /\ total_falling_stocks + total_rising_stocks = total_samples
        /\ falling_ratio # NULL /\ rising_ratio # NULL
        /\ falling_ratio[1][1] + rising_ratio[1][1] = 100 * total_samples
        /\ falling_ratio[1][1] \in 0..(100 * total_samples)
        /\ rising_ratio[1][1] \in 0..(100 * total_samples)

\* What does hold of the prompt's figures: the division is defined, and the
\* sample total is at most the stocks the summary counts
SampleTotalPositiveAtMostStocks ==
    PromptGenerated =>
        /\ total_samples > 0
        /\ total_samples <= total_falling_stocks + total_rising_stocks
        /\ total_falling_stocks + total_rising_stocks
              = SetSum(view.summary.rows, [r \in view.summary.rows |-> r.stock_count])

-----------------------------------------------------------------------------
(* C20: the data completeness of the footer *)

\* src/app.py:460, 468  df['report_month'].nunique()
actual_months ==
    IF view.heatmap.rows = {} THEN 0 ELSE Cardinality({r.report_month : r \in view.heatmap.rows})

\* src/app.py:461, 470  df['data_points'].sum()
total_data_points ==
    IF view.heatmap.rows = {} THEN 0
    ELSE SetSum(view.heatmap.rows, [r \in view.heatmap.rows |-> r.data_points])

\* src/app.py:834-837: the percentage as <<numerator, denominator>>; None stands
\* for a division by 0
completeness ==
    IF total_samples > 0
    THEN IF total_samples * actual_months = 0 THEN NULL
         ELSE Val(<<total_data_points * 100, total_samples * actual_months>>)
    ELSE Val(<<0, 1>>)

NoData == <<"no data">>

\* src/app.py:844: the two counts, or the text "無數據"
completeness_text ==
    IF total_samples > 0 THEN <<total_data_points, total_samples * actual_months>> ELSE NoData

\* src/app.py:820-847: the footer is rendered by a script run of the close-price
\* page that reaches its end
FooterRendered == widgets.page = "app" /\ pc = "done"

TSMC_TWO == [id |-> "2330", market |-> "TWO"]

\* Price records of the target year: two of symbol 2330.TW, one of 2330.TWO, two of 1101.TW
FooterPrices ==
    {PriceRow(TSMC, DefaultYear, Val(10), Val(13), Val(15)),
     PriceRow(TSMC, DefaultYear, Val(10), Val(12), Val(15)),
     PriceRow(TSMC_TWO, DefaultYear, Val(10), Val(13), Val(15)),
     PriceRow(TCC, DefaultYear, Val(10), Val(13), Val(15)),
     PriceRow(TCC, DefaultYear, Val(10), Val(8), Val(9))}

\* Revenue rows of the window: two of stock 2330 for 113_06, and rows of other
\* months and of stock 1101
FooterRevenue ==
    {RevenueRow(TSMC, NameTSMC, ReportMonth(113, 6), Val(150), Val(5), NULL),
     RevenueRow(TSMC, NameTSMC, ReportMonth(113, 6), Val(20), Val(5), NULL),
     RevenueRow(TSMC, NameTSMC, ReportMonth(112, 12), Val(150), Val(5), NULL),
     RevenueRow(TCC, NameTCC, ReportMonth(113, 6), Val(20), Val(5), NULL),
     RevenueRow(TCC, NameTCC, ReportMonth(113, 7), NULL, Val(5), NULL)}

InitFooter ==
    \E prices \in SUBSET FooterPrices, revenue \in SUBSET FooterRevenue, page \in Pages :
        /\ page # "app" =>
              /\ prices = {PriceRow(TSMC, DefaultYear, Val(10), Val(13), Val(15))}
              /\ revenue = {RevenueRow(TSMC, NameTSMC, ReportMonth(113, 6), Val(150), Val(5), NULL)}
        /\ InitRun(prices, revenue, DefaultWidgets(page))

SpecFooter == InitFooter /\ [][NextQuery]_vars

\* At most one revenue row per (stock, report month)
RevenueKeyed ==
    \A a \in db.revenue, b \in db.revenue :
        (a.stock_id = b.stock_id /\ a.report_month = b.report_month) => a = b

\* At most one price record per (symbol, year)
PricesKeyed ==
    \A a \in db.prices, b \in db.prices :
        (a.symbol = b.symbol /\ a.year = b.year) => a = b

Within0To100(x) == x # NULL /\ 0 <= x[1][1] /\ x[1][1] <= 100 * x[1][2]

\* C20: the footer's completeness is defined in every run; it is 0 with the text
\* "no data" when the heatmap result is empty; and when the result has rows and
\* the revenue table has at most one row per (stock, report month) the data
\* points are at most total_samples * actual_months, the percentage in 0..100.
C20_CompletenessWithin100 ==
    FooterRendered =>
        /\ completeness # NULL
        /\ view.heatmap.rows = {} =>
              (completeness = Val(<<0, 1>>) /\ completeness_text = NoData)
        /\ (view.heatmap.rows # {} /\ RevenueKeyed) =>
              /\ total_data_points <= total_samples * actual_months
              /\ Within0To100(completeness)

\* C20 amended: the same, when moreover the price table has at most one record
\* per (symbol, year).
C20_CompletenessWithin100Keyed ==
    FooterRendered =>
        /\ completeness # NULL
        /\ view.heatmap.rows = {} =>
              (completeness = Val(<<0, 1>>) /\ completeness_text = NoData)
        /\ (view.heatmap.rows # {} /\ RevenueKeyed /\ PricesKeyed) =>
              /\ total_data_points <= total_samples * actual_months
              /\ Within0To100(completeness)

\* Three symbols, two of one stock id, in one bin, with rows of two months and a
\* NULL metric: the footer shows fewer data points than samples times months
C20_Witness ==
    /\ FooterRendered
    /\ RevenueKeyed /\ PricesKeyed
    /\ Cardinality(db.prices) = 3
    /\ actual_months = 2
    /\ total_samples = 3
    /\ total_data_points = 5
    /\ completeness = Val(<<500, 6>>)

-----------------------------------------------------------------------------
(* C21: the quick switch of the statistic, for every method of the sidebar   *)

InitQuick ==
    \E page \in Pages, m \in 1..Len(stat_methods), q \in 1..Len(quick_stat_words),
       col \in MetricColumns :
        /\ page # "app" => (m = 1 /\ q = 1 /\ col = "yoy_pct")
        /\ InitRun(StatPrices, StatRevenue,
                   [DefaultWidgets(page) EXCEPT !.stat_method = stat_methods[m],
                                                !.quick_stat = q, !.target_col = col])

SpecQuick == InitQuick /\ [][NextQuery]_vars

\* The quick matrix is displayed: the run is past the switch and display_df has rows
MatrixDisplayed ==
    /\ widgets.page = "app"
    /\ pc = "done"
    /\ view.quick.ran /\ view.quick.ok
    /\ view.quick.rows # {}

\* The method whose name begins with the word of the quick choice
ChosenMethod == stat_methods[widgets.quick_stat]

\* C21: for each of the eight methods of the sidebar and each of the four quick
\* choices, the matrix displayed is the heatmap data of the method the quick
\* choice names: the data already fetched when the sidebar's method is that
\* method, data fetched with that method otherwise, never rows of another method.
C21_QuickShowsChosenMethod ==
    MatrixDisplayed =>
        /\ \A r \in view.quick.rows :
              /\ r.stat_method = ChosenMethod
              /\ r.val.agg_func = agg_func(ChosenMethod, widgets.target_col)
        /\ view.quick.rows = HeatmapRows(view.quick.bins, view.quick.months,
                                         widgets.target_col, ChosenMethod)
        /\ widgets.stat_method = ChosenMethod =>
              (view.quick = view.heatmap /\ hist.called = NoCall)
        /\ widgets.stat_method # ChosenMethod =>
              /\ hist.called.fn = "fetch_heatmap_data"
              /\ hist.called.args = <<widgets.target_year, widgets.target_col, ChosenMethod>>
              /\ view.quick = hist.called.value

\* The sidebar holds the interquartile range and the quick choice is the median:
\* the matrix is the median's, fetched by the switch
C21_Witness ==
    /\ MatrixDisplayed
    /\ widgets.stat_method = stat_methods[7]
    /\ widgets.quick_stat = 1
    /\ hist.called.fn = "fetch_heatmap_data"
    /\ \E r \in view.quick.rows : r.stat_label = "median"
    /\ \E r \in view.heatmap.rows : r.stat_label = "iqr"

-----------------------------------------------------------------------------
(* C22: the hit counts of the probability table *)

\* The revenue rows of a stock in the given months, all with the YoY growth v
RowsIn(symbol, name, months, v) ==
    {RevenueRow(symbol, name, rm, v, Val(5), NULL) : rm \in months}

\* What stock 2330 may have reported: nothing; June at the lower threshold, at the
\* upper one, just under each, or without a value; every month of the window and
\* the months before and after it; June twice
HitRevenueTSMC ==
    { {} }
    \cup { RowsIn(TSMC, NameTSMC, {ReportMonth(113, 6)}, v)
             : v \in {Val(100), Val(99), Val(1000), Val(999), NULL} }
    \cup { RowsIn(TSMC, NameTSMC,
                  TwelveMonths(DefaultYear) \cup {ReportMonth(112, 11), ReportMonth(113, 12)},
                  Val(150)) }
    \cup { RowsIn(TSMC, NameTSMC, {ReportMonth(113, 6)}, Val(150))
             \cup RowsIn(TSMC, NameTSMC, {ReportMonth(113, 6)}, Val(200)) }

HitRevenueTCC ==
    { {}, RowsIn(TCC, NameTCC, {ReportMonth(113, 6), ReportMonth(113, 7)}, Val(150)) }

\* Price records, at most one per symbol and year: of 2330.TW, of 2330.TWO, of
\* 1101.TW, and of 1101.TW for another year
HitPrices ==
    {PriceRow(TSMC, DefaultYear, Val(10), Val(13), Val(15)),
     PriceRow(TSMC_TWO, DefaultYear, Val(10), Val(14), Val(16)),
     PriceRow(TCC, DefaultYear, Val(10), Val(8), Val(9)),
     PriceRow(TCC, OtherYear, Val(10), Val(20), Val(25))}

HitRanges == {<<100, 1000>>, <<100, 100>>, <<150, 200>>}

InitHits ==
    \E prices \in SUBSET HitPrices, ra \in HitRevenueTSMC, rb \in HitRevenueTCC,
       range \in HitRanges, page \in Pages :
        /\ page # "prob" =>
              /\ prices = HitPrices /\ range = <<100, 1000>>
              /\ ra = RowsIn(TSMC, NameTSMC, {ReportMonth(113, 6)}, Val(100)) /\ rb # {}
        /\ InitRun(prices, ra \cup rb, [DefaultWidgets(page) EXCEPT !.growth_range = range])

SpecHits == InitHits /\ [][NextQuery]_vars

\* The report months of the window in which the stock has a row whose metric v
\* satisfies low <= v < high
HitMonths(stock_id) ==
    {rm \in TwelveMonths(widgets.target_year) :
        \E m \in db.revenue :
            /\ m.stock_id = stock_id
            /\ m.report_month = rm
            /\ m[widgets.target_col] # NULL
            /\ widgets.growth_range[1] <= m[widgets.target_col][1]
            /\ m[widgets.target_col][1] < widgets.growth_range[2]}

HasPriceRecord(stock_id) ==
    \E p \in db.prices : p.year = widgets.target_year /\ SPLIT_PART_1(p.symbol) = stock_id

\* The stocks with at least one hit and a price record of the target year
HitStocksWithPrice ==
    {s \in {m.stock_id : m \in db.revenue} : HitMonths(s) # {} /\ HasPriceRecord(s)}

\* src/pages/probability.py:267  df_prob["股票檔數"].sum()
total_stocks == SetSum(view.prob.rows, [r \in view.prob.rows |-> r.stock_count])

\* At most one price record per (stock id, year)
PricesKeyedByStock ==
    \A a \in db.prices, b \in db.prices :
        (SPLIT_PART_1(a.symbol) = SPLIT_PART_1(b.symbol) /\ a.year = b.year) => a = b

\* The first three parts of C22
HitCountsAreMonthCounts ==
    /\ RevenueKeyed =>
          \A row \in view.prob.rows :
              /\ row.hits \in 1..12
              /\ \A g \in row.rets : row.hits = Cardinality(HitMonths(SPLIT_PART_1(g[1])))
    /\ \A row \in view.prob.rows : \A g \in row.rets :
          /\ HitMonths(SPLIT_PART_1(g[1])) # {}
          /\ HasPriceRecord(SPLIT_PART_1(g[1]))

\* C22: a stock's hit count is the number of report months of the twelve-month
\* window whose metric v has low <= v < high; with at most one revenue row per
\* (stock, report month) every hit count is in 1..12; a stock without such a month
\* or without a price record of the target year is in no row; and the stock
\* counts of the rows sum to the number of stocks with a hit and a price record.
C22_HitCounts ==
    ProbTableRan =>
        /\ HitCountsAreMonthCounts
        /\ total_stocks = Cardinality(HitStocksWithPrice)

\* The price records of the target year whose stock id has at least one hit
HitPriceRecords ==
    {p \in db.prices :
        p.year = widgets.target_year /\ HitMonths(SPLIT_PART_1(p.symbol)) # {}}

\* C22 amended: the same, the stock counts summing to the number of price records
\* of the target year whose stock has at least one hit, which is the number of
\* such stocks when no stock has two price records of the year.
C22_HitCountsPerPriceRecord ==
    ProbTableRan =>
        /\ HitCountsAreMonthCounts
        /\ total_stocks = Cardinality(HitPriceRecords)
        /\ PricesKeyedByStock => total_stocks = Cardinality(HitStocksWithPrice)

\* A stock with twelve hits and a stock with two, each with its price record;
\* rows before and after the window are in the table
C22_Witness ==
    /\ ProbTableRan
    /\ RevenueKeyed /\ PricesKeyedByStock
    /\ \E a \in view.prob.rows, b \in view.prob.rows : a.hits = 12 /\ b.hits = 2
    /\ total_stocks = 2
    /\ \E m \in db.revenue : m.report_month = ReportMonth(113, 12)

-----------------------------------------------------------------------------
(* C23: the win rate and the doubling rate of the probability table *)

\* Price records of 2024, open 10: 2330.TW closes at 25 (+150%), at 13 (+30%) or
\* has no close; 2330.TWO closes at 20 (+100%) or at 12 (+20%); 1101.TW closes at
\* 30 (+200%) or at 8 (-20%), or has no record
RatePrices ==
    { {PriceRow(TSMC, DefaultYear, Val(10), a, Val(40)),
       PriceRow(TSMC_TWO, DefaultYear, Val(10), Val(b), Val(21))} \cup c
      : a \in {Val(25), Val(13), NULL}, b \in {20, 12},
        c \in { {}, {PriceRow(TCC, DefaultYear, Val(10), Val(30), Val(35))},
                {PriceRow(TCC, DefaultYear, Val(10), Val(8), Val(9))} } }

\* 2330 has one hit; 1101 has one hit or two
RateRevenue ==
    { RowsIn(TSMC, NameTSMC, {ReportMonth(113, 6)}, Val(150))
        \cup RowsIn(TCC, NameTCC, ms, Val(150))
      : ms \in { {ReportMonth(113, 6)}, {ReportMonth(113, 6), ReportMonth(113, 7)} } }

InitRates ==
    \E prices \in RatePrices, revenue \in RateRevenue, f \in PriceFields,
       page \in Pages, p \in BOOLEAN, s \in BOOLEAN :
        /\ page # "prob" => (f = "year_close" /\ p)
        /\ db = [prices |-> prices, revenue |-> revenue, max_date |-> "2025-01-15",
                 up |-> TRUE, percentile_cont |-> p, secrets |-> s, writable |-> TRUE]
        /\ widgets = [DefaultWidgets(page) EXCEPT !.price_field = f]
        /\ pc = "start"
        /\ view = NoView
        /\ trips = 0
        /\ cache = {}
        /\ clock = 0
        /\ hist = NoHist

SpecRates == InitRates /\ [][NextQuery]_vars

\* The rates of a row, in tenths of a percent: both within 0..100 %, the doubling
\* rate at most the win rate, the divisor at least 1
RatesInRange(row) ==
    /\ row.stock_count >= 1
    /\ row.win_rate # NULL /\ row.double_rate # NULL
    /\ 0 <= row.double_rate[1]
    /\ row.double_rate[1] <= row.win_rate[1]
    /\ row.win_rate[1] <= 1000

\* C23: in every row of the probability table, of the primary and of the
\* alternate query, the win rate and the doubling rate lie between 0 and 100, the
\* doubling rate is at most the win rate, and the divisor COUNT(*) is at least 1.
C23_RatesInRange ==
    /\ ProbTableRan => \A row \in view.prob.rows : RatesInRange(row)
    /\ \A row \in PrimaryTable.rows \cup AlternateTable.rows : RatesInRange(row)

\* The alternate query ran and gave a row of three stocks, one above +100% and
\* one more above +20%
C23_Witness ==
    /\ ProbTableRan
    /\ view.alt_used
    /\ \E row \in view.prob.rows :
          /\ row.stock_count = 3
          /\ row.win_rate = Val(667)
          /\ row.double_rate = Val(333)

-----------------------------------------------------------------------------
(* C24: the expected-value scores of the probability page *)

NaN == NULL

\* ORDER BY hits DESC, sort_values("爆發次數", ascending=False): the table as the
\* sequence of its rows
OrderByHitsDesc(rows) ==
    [i \in 1..Cardinality(rows) |->
        CHOOSE r \in rows : Cardinality({x \in rows : x.hits > r.hits}) = i - 1]

\* calculate_expected_value without the floor of the standard deviation
calculate_expected_value_no_floor(df) ==
    LET num(v) == IF v = NULL THEN NaN ELSE Reduce(<<v[1], 10>>)
        mul(a, b) == IF a = NaN \/ b = NaN THEN NaN ELSE RatMul(a, b)
        add(a, b) == IF a = NaN \/ b = NaN THEN NaN ELSE RatAdd(a, b)
        round2(x) == IF x = NaN THEN NaN ELSE round1(RatMul(x, <<10, 1>>))
        score(row, avg, std_dev, win_rate) ==
            LET expected_value == mul(avg, <<row.stock_count, 1>>)
                risk_adjusted == IF std_dev # NaN /\ RatLt(<<0, 1>>, std_dev)
                                 THEN mul(avg, <<std_dev[2], std_dev[1]>>)
                                 ELSE <<0, 1>>
                success_adjusted == mul(avg, win_rate)
                nonzero == expected_value = NaN \/ expected_value[1] # 0
            IN  [hits |-> row.hits, stock_count |-> row.stock_count,
                 avg |-> row.avg, median |-> row.median,
                 mean_median_diff |-> round1(add(avg, mul(<<-1, 1>>, num(row.median)))),
                 win_rate |-> row.win_rate, double_rate |-> row.double_rate,
                 expected_score |-> IF nonzero THEN round2(mul(expected_value, <<1, 100>>))
                                    ELSE Val(0),
                 risk_score |-> round2(risk_adjusted),
                 success_score |-> round2(success_adjusted),
                 composite |-> IF nonzero
                               THEN round2(mul(add(add(mul(expected_value, <<1, 100>>),
                                                       risk_adjusted),
                                                   success_adjusted), <<1, 3>>))
                               ELSE Val(0)]
    IN  [i \in 1..Len(df) |->
            score(df[i], num(df[i].avg), num(df[i].std), mul(num(df[i].win_rate), <<1, 100>>))]

\* src/pages/probability.py:157-197. The columns are floats in tenths (NaN for a
\* NULL), the scores floats in hundredths. max(x, 1) of Python keeps its first
\* argument unless the second is greater, so a NaN stays; nan > 0 is false and
\* nan != 0 is true.
calculate_expected_value(df) ==
    LET num(v) == IF v = NULL THEN NaN ELSE Reduce(<<v[1], 10>>)
        mul(a, b) == IF a = NaN \/ b = NaN THEN NaN ELSE RatMul(a, b)
        add(a, b) == IF a = NaN \/ b = NaN THEN NaN ELSE RatAdd(a, b)
        max(a, b) == IF a # NaN /\ b # NaN /\ RatLt(a, b) THEN b ELSE a
        round2(x) == IF x = NaN THEN NaN ELSE round1(RatMul(x, <<10, 1>>))
        score(row, avg, std_dev, win_rate) ==
            LET expected_value == mul(avg, <<row.stock_count, 1>>)
                risk_adjusted == IF std_dev # NaN /\ RatLt(<<0, 1>>, std_dev)
                                 THEN mul(avg, <<std_dev[2], std_dev[1]>>)
                                 ELSE <<0, 1>>
                success_adjusted == mul(avg, win_rate)
                nonzero == expected_value = NaN \/ expected_value[1] # 0
            IN  [hits |-> row.hits, stock_count |-> row.stock_count,
                 avg |-> row.avg, median |-> row.median,
                 mean_median_diff |-> round1(add(avg, mul(<<-1, 1>>, num(row.median)))),
                 win_rate |-> row.win_rate, double_rate |-> row.double_rate,
                 expected_score |-> IF nonzero THEN round2(mul(expected_value, <<1, 100>>))
                                    ELSE Val(0),
                 risk_score |-> round2(risk_adjusted),
                 success_score |-> round2(success_adjusted),
                 composite |-> IF nonzero
                               THEN round2(mul(add(add(mul(expected_value, <<1, 100>>),
                                                       risk_adjusted),
                                                   success_adjusted), <<1, 3>>))
                               ELSE Val(0)]
    IN  [i \in 1..Len(df) |->
            score(df[i], num(df[i].avg), max(num(df[i].std), <<1, 1>>),
                  mul(num(df[i].win_rate), <<1, 100>>))]

\* expected_df["綜合評分"].idxmax(): the first row with the largest score, NaN
\* skipped; 0 when every score is NaN
idxmax(expected_df) ==
    LET scored == {i \in 1..Len(expected_df) : expected_df[i].composite # NaN}
    IN  IF scored = {} THEN 0
        ELSE CHOOSE i \in scored :
                \A j \in scored :
                    \/ expected_df[j].composite[1] < expected_df[i].composite[1]
                    \/ expected_df[j].composite[1] = expected_df[i].composite[1] /\ i <= j

\* A column of the primary query's frame whose values are all NULL may hold None
\* instead of NaN: "{:.1f}%".format(None) and max(None, 1) raise TypeError
MayHoldNone ==
    IF ~view.alt_used /\ \A r \in view.prob.rows : r.std = NULL THEN BOOLEAN ELSE {FALSE}

\* src/pages/probability.py:345-361: the scores and the best hit count, shown
\* when the table has more than one row (the checkbox is ticked)
ExpectedValue ==
    /\ pc = "prob"
    /\ Cardinality(view.prob.rows) > 1
    /\ \E none \in MayHoldNone :
        \E expected_df \in {calculate_expected_value(OrderByHitsDesc(view.prob.rows))} :
          IF none \/ idxmax(expected_df) = 0
          THEN /\ pc' = "error"
               /\ view' = view
          ELSE /\ pc' = "scored"
               /\ view' = [view EXCEPT !.expected =
                             [ran |-> TRUE, ok |-> TRUE, rows |-> expected_df,
                              best_idx |-> idxmax(expected_df),
                              best_hits |-> expected_df[idxmax(expected_df)].hits]]
    /\ UNCHANGED <<db, widgets, trips, cache, clock, hist>>

NextScore ==
    \/ get_engine
    \/ QueryProb
    \/ ExpectedValue

\* Price records of 2024, open 10: 2330.TW closes at 25, 13 or 10; 2330.TWO
\* closes at 13 or 20, or has no record; 1101.TW closes at 30, 8 or 10
ScorePrices ==
    { {PriceRow(TSMC, DefaultYear, Val(10), Val(a), Val(40)),
       PriceRow(TCC, DefaultYear, Val(10), Val(c), Val(35))} \cup b
      : a \in {25, 13, 10}, c \in {30, 8, 10},
        b \in { {}, {PriceRow(TSMC_TWO, DefaultYear, Val(10), Val(13), Val(21))},
                {PriceRow(TSMC_TWO, DefaultYear, Val(10), Val(20), Val(21))} } }

\* 2330 has one hit, 1101 has two
ScoreRevenue ==
    RowsIn(TSMC, NameTSMC, {ReportMonth(113, 6)}, Val(150))
        \cup RowsIn(TCC, NameTCC, {ReportMonth(113, 6), ReportMonth(113, 7)}, Val(150))

InitScore ==
    \E prices \in ScorePrices, p \in BOOLEAN, s \in BOOLEAN :
        /\ db = [prices |-> prices, revenue |-> ScoreRevenue, max_date |-> "2025-01-15",
                 up |-> TRUE, percentile_cont |-> p, secrets |-> s, writable |-> TRUE]
        /\ widgets = DefaultWidgets("prob")
        /\ pc = "start"
        /\ view = NoView
        /\ trips = 0
        /\ cache = {}
        /\ clock = 0
        /\ hist = NoHist

SpecScore == InitScore /\ [][NextScore]_vars

Scored == pc = "scored"

\* The table the scores were computed from
df_prob == OrderByHitsDesc(view.prob.rows)

\* One row per input row, in the same order, with the same hit count and stock
\* count; the composite score is 0 when average return times stock count is 0;
\* the best hit count is that of a row with the largest composite score
ScoreRowsAndBest ==
    /\ calculate_expected_value(<<>>) = <<>>
    /\ Scored =>
          LET e == view.expected.rows
          IN  /\ Len(e) = Len(df_prob) /\ Len(e) >= 1
              /\ \A i \in 1..Len(e) :
                    /\ e[i].hits = df_prob[i].hits
                    /\ e[i].stock_count = df_prob[i].stock_count
                    /\ (df_prob[i].avg # NULL /\ df_prob[i].avg[1] * e[i].stock_count = 0)
                          => e[i].composite = Val(0)
              /\ \E i \in 1..Len(e) :
                    /\ e[i].hits = view.expected.best_hits
                    /\ e[i].composite # NaN
                    /\ \A j \in 1..Len(e) :
                          e[j].composite # NaN => e[j].composite[1] <= e[i].composite[1]

\* The risk-adjusted score with the standard deviation floored at 1, a missing
\* one included: round(avg / max(std, 1), 2), in hundredths
FlooredRiskScore(row) ==
    LET std == IF row.std = NULL \/ row.std[1] < 10 THEN 10 ELSE row.std[1]
    IN  IF row.avg = NULL THEN NaN
        ELSE round1(RatMul(Reduce(<<row.avg[1], std>>), <<10, 1>>))

\* C24: calculate_expected_value gives an empty table for an empty one and
\* otherwise one row per input row, in order, with the same hit count and stock
\* count; the standard deviation of the risk-adjusted score is floored at 1, so
\* the score is defined for every row, rows with a zero or missing standard
\* deviation included; the composite score is 0 when average return times stock
\* count is 0; the best hit count is that of a row with the largest composite score.
C24_ExpectedValueScores ==
    /\ ScoreRowsAndBest
    /\ Scored =>
          \A i \in 1..Len(df_prob) :
              view.expected.rows[i].risk_score = FlooredRiskScore(df_prob[i])

\* What holds of the risk-adjusted score: it is the floored one on a row with a
\* standard deviation and 0 on a row without
RiskScoreZeroWhenStdMissing ==
    /\ ScoreRowsAndBest
    /\ Scored =>
          \A i \in 1..Len(df_prob) :
              view.expected.rows[i].risk_score =
                  IF df_prob[i].std = NULL THEN Val(0) ELSE FlooredRiskScore(df_prob[i])

-----------------------------------------------------------------------------
(* C25: the announcement base date of the timing page *)

Dash == <<"-">>

\* CASE WHEN RIGHT(report_month, 2) = '12'
\*      THEN (LEFT(report_month, 3)::int + 1 + 1911)::text || '-01-10'
\*      ELSE (LEFT(report_month, 3)::int + 1911)::text || '-'
\*           || LPAD((RIGHT(report_month, 2)::int + 1)::text, 2, '0') || '-10'
\* END::date, every year taken as the December branch takes it
base_date_next_year(report_month) ==
    LET LEFT(s, n) == SubSeq(s, 1, IF n < Len(s) THEN n ELSE Len(s))
        RIGHT(s, n) == SubSeq(s, IF n < Len(s) THEN Len(s) - n + 1 ELSE 1, Len(s))
        IsInt(s) == s # <<>> /\ \A i \in 1..Len(s) : \E d \in 1..10 : DigitChar[d] = s[i]
        LPAD(s, n, fill) == IF Len(s) >= n THEN SubSeq(s, 1, n)
                            ELSE [i \in 1..(n - Len(s)) |-> fill] \o s
        DaysIn(y, m) == IF m \in {4, 6, 9, 11} THEN 30
                        ELSE IF m # 2 THEN 31
                        ELSE IF y % 4 = 0 /\ (y % 100 # 0 \/ y % 400 = 0) THEN 29 ELSE 28
        date(s) ==
            LET y == int(SubSeq(s, 1, Len(s) - 6))
                m == int(SubSeq(s, Len(s) - 4, Len(s) - 3))
                d == int(SubSeq(s, Len(s) - 1, Len(s)))
            IN  IF m \in 1..12 /\ d \in 1..DaysIn(y, m)
                THEN [ok |-> TRUE, text |-> s, year |-> y, month |-> m, day |-> d]
                ELSE [ok |-> FALSE, text |-> s, year |-> 0, month |-> 0, day |-> 0]
        error == [ok |-> FALSE, text |-> <<>>, year |-> 0, month |-> 0, day |-> 0]
        yyy == LEFT(report_month, 3)
        mm == RIGHT(report_month, 2)
    IN  IF mm = <<"1", "2">>
        THEN IF IsInt(yyy)
             THEN date(str(int(yyy) + 1 + 1911) \o Dash \o <<"0", "1">> \o Dash \o <<"1", "0">>)
             ELSE error
        ELSE IF IsInt(yyy) /\ IsInt(mm)
             THEN date(str(int(yyy) + 1 + 1911) \o Dash \o LPAD(str(int(mm) + 1), 2, "0")
                           \o Dash \o <<"1", "0">>)
             ELSE error

\* src/pages/timing_lab.py:217-220: the base date of a report month; a cast that
\* fails (::int of a text that is no number, ::date of a month that is none)
\* raises an error
base_date(report_month) ==
    LET LEFT(s, n) == SubSeq(s, 1, IF n < Len(s) THEN n ELSE Len(s))
        RIGHT(s, n) == SubSeq(s, IF n < Len(s) THEN Len(s) - n + 1 ELSE 1, Len(s))
        IsInt(s) == s # <<>> /\ \A i \in 1..Len(s) : \E d \in 1..10 : DigitChar[d] = s[i]
        LPAD(s, n, fill) == IF Len(s) >= n THEN SubSeq(s, 1, n)
                            ELSE [i \in 1..(n - Len(s)) |-> fill] \o s
        DaysIn(y, m) == IF m \in {4, 6, 9, 11} THEN 30
                        ELSE IF m # 2 THEN 31
                        ELSE IF y % 4 = 0 /\ (y % 100 # 0 \/ y % 400 = 0) THEN 29 ELSE 28
        date(s) ==
            LET y == int(SubSeq(s, 1, Len(s) - 6))
                m == int(SubSeq(s, Len(s) - 4, Len(s) - 3))
                d == int(SubSeq(s, Len(s) - 1, Len(s)))
            IN  IF m \in 1..12 /\ d \in 1..DaysIn(y, m)
                THEN [ok |-> TRUE, text |-> s, year |-> y, month |-> m, day |-> d]
                ELSE [ok |-> FALSE, text |-> s, year |-> 0, month |-> 0, day |-> 0]
        error == [ok |-> FALSE, text |-> <<>>, year |-> 0, month |-> 0, day |-> 0]
        yyy == LEFT(report_month, 3)
        mm == RIGHT(report_month, 2)
    IN  IF mm = <<"1", "2">>
        THEN IF IsInt(yyy)
             THEN date(str(int(yyy) + 1 + 1911) \o Dash \o <<"0", "1">> \o Dash \o <<"1", "0">>)
             ELSE error
        ELSE IF IsInt(yyy) /\ IsInt(mm)
             THEN date(str(int(yyy) + 1911) \o Dash \o LPAD(str(int(mm) + 1), 2, "0")
                           \o Dash \o <<"1", "0">>)
             ELSE error

\* src/pages/timing_lab.py:209-226: raw_events with the metric of the stock's
\* previous report month (LAG), and the rows of spark_events: the metric reaches
\* the limit, the previous one did not or is missing, the month is of the year,
\* the keyword is in the remark or in the name
spark_events(revenue, year, metric_col, limit, keyword) ==
    LET raw_events == {m \in revenue :
                          \/ LIKE(m.report_month, MonthPattern(minguo_year(year)))
                          \/ LIKE(m.report_month, Month12(minguo_year(year) - 1))}
        before(m) == {x \in raw_events :
                         x.stock_id = m.stock_id /\ StrLt(x.report_month, m.report_month)}
        prev_metric(m) ==
            IF before(m) = {} THEN NULL
            ELSE (CHOOSE x \in before(m) :
                     \A z \in before(m) : StrLe(z.report_month, x.report_month))[metric_col]
    IN  {m \in raw_events :
            /\ m[metric_col] # NULL /\ m[metric_col][1] >= limit
            /\ prev_metric(m) = NULL \/ prev_metric(m)[1] < limit
            /\ LIKE(m.report_month, MonthPattern(minguo_year(year)))
            /\ \/ m.remark # NULL /\ LIKE(m.remark[1], KeywordPattern(keyword))
               \/ LIKE(m.stock_name, KeywordPattern(keyword))}

\* src/pages/timing_lab.py:204-248, 287: the events of the year with their base
\* dates (the weekly returns around a base date are averaged from another table
\* and are not kept here); the query fails when a base date cannot be computed
fetch_timing_data ==
    /\ pc = "start"
    /\ db.secrets
    /\ widgets.page = "timing"
    /\ \E e \in {spark_events(db.revenue, widgets.target_year, widgets.target_col,
                              widgets.threshold, widgets.search_remark)} :
          IF \A m \in e : base_date(m.report_month).ok
          THEN /\ view' = [view EXCEPT !.timing =
                             [ran |-> TRUE, ok |-> TRUE,
                              rows |-> {[stock_id |-> m.stock_id,
                                         report_month |-> m.report_month,
                                         base_date |-> base_date(m.report_month)] : m \in e}]]
               /\ pc' = "done"
          ELSE /\ view' = [view EXCEPT !.timing = QueryFailed]
               /\ pc' = "error"
    /\ trips' = trips + 1
    /\ UNCHANGED <<db, widgets, cache, clock, hist>>

NextTiming ==
    \/ get_engine
    \/ fetch_timing_data

\* st.selectbox("分析年度", [str(y) for y in range(2025, 2019, -1)], index=1);
\* st.slider("爆發門檻 %", 30, 300, 100); st.text_input("關鍵字搜尋", "")
TimingWidgets(year) ==
    [page |-> "timing", target_year |-> year, target_col |-> "yoy_pct",
     threshold |-> 100, search_remark |-> <<>>]

TimingYears == {str(y) : y \in 2020..2025}

\* The report months of a table: those of the year and of the year before, zero
\* padded; and a month without its zero, a month 00 and a month 13
TimingMonths(year) ==
    {ReportMonth(minguo_year(year) - d, mm) : d \in {0, 1}, mm \in 1..12}
    \cup {str(minguo_year(year)) \o <<"_">> \o str(6),
          ReportMonth(minguo_year(year), 0), ReportMonth(minguo_year(year), 13)}

\* One stock with a row of a month at 150 % and, or not, an earlier row under or
\* over the limit
InitTiming ==
    \E year \in TimingYears, s \in BOOLEAN :
    \E rm \in TimingMonths(year), prev \in {NULL, Val(50), Val(150)},
       has_prev \in BOOLEAN :
        /\ db = [prices |-> {},
                 revenue |-> RowsIn(TSMC, NameTSMC, {rm}, Val(150))
                                \cup (IF has_prev
                                      THEN {RevenueRow(TSMC, NameTSMC,
                                                       ReportMonth(minguo_year(year) - 2, 12),
                                                       prev, Val(5), NULL)}
                                            \cup {RevenueRow(TSMC, NameTSMC,
                                                       ReportMonth(minguo_year(year) - 1, 12),
                                                       prev, Val(5), NULL)}
                                      ELSE {}),
                 max_date |-> "2025-01-15", up |-> TRUE, percentile_cont |-> TRUE,
                 secrets |-> s, writable |-> TRUE]
        /\ ~has_prev => prev = NULL
        /\ widgets = TimingWidgets(year)
        /\ pc = "start"
        /\ view = NoView
        /\ trips = 0
        /\ cache = {}
        /\ clock = 0
        /\ hist = NoHist

SpecTiming == InitTiming /\ [][NextTiming]_vars

\* Three-digit ROC years: those of the page and others up to 999
RocYears == (108..115) \cup {100, 199, 200, 999}

\* The 10th of the month after the report month mm of the ROC year roc
TenthOfNextMonth(roc, mm) ==
    IF mm = 12
    THEN [ok |-> TRUE,
          text |-> str(roc + 1912) \o Dash \o <<"0", "1">> \o Dash \o <<"1", "0">>,
          year |-> roc + 1912, month |-> 1, day |-> 10]
    ELSE [ok |-> TRUE,
          text |-> str(roc + 1911) \o Dash
                     \o (IF mm + 1 < 10 THEN <<"0">> \o str(mm + 1) ELSE str(mm + 1))
                     \o Dash \o <<"1", "0">>,
          year |-> roc + 1911, month |-> mm + 1, day |-> 10]

TimingRan == widgets.page = "timing" /\ view.timing.ran /\ view.timing.ok

\* C25: the base date of the report month M_mm is the 10th of the following
\* calendar month, (M+1911)-(mm+1)-10 for mm in 01..11 and (M+1912)-01-10 for
\* mm = 12; for every zero-padded report month with a three-digit ROC year the
\* month computed is in 01..12 and the text is a valid date.
C25_BaseDateTenthOfNextMonth ==
    /\ \A roc \in RocYears, mm \in 1..12 :
          LET b == base_date(ReportMonth(roc, mm))
          IN  b = TenthOfNextMonth(roc, mm) /\ b.ok /\ b.month \in 1..12
    /\ TimingRan =>
          \A e \in view.timing.rows :
              \A roc \in RocYears, mm \in 1..12 :
                  e.report_month = ReportMonth(roc, mm) =>
                      e.base_date = TenthOfNextMonth(roc, mm)

\* The event of December 2024, in a table with earlier reports, with its base
\* date in January 2025
C25_Witness ==
    /\ TimingRan
    /\ Cardinality(db.revenue) = 3
    /\ \E e \in view.timing.rows :
          /\ e.report_month = <<"1", "1", "3", "_", "1", "2">>
          /\ e.base_date.text = <<"2", "0", "2", "5", "-", "0", "1", "-", "1", "0">>
          /\ e.base_date.month = 1
====
